---- MODULE Spec2Model ----
(***************************************************************************)
(* Model of the ad-router relay: the Redis-backed debounce manager         *)
(* (app/services/debounce_redis.py), the forwarder that dispatches a job   *)
(* and records it (app/services/forwarder.py), the track entrypoint        *)
(* (app/routers/track.py) and the callback handler                         *)
(* (app/routers/callback.py).                                              *)
(*                                                                         *)
(* Time is counted in ticks of 10 s: max_wait_ms = 20000 is 2 ticks and    *)
(* the lock TTL of 30000 ms is 3 ticks.                                    *)
(***************************************************************************)
EXTENDS Integers, Sequences, FiniteSets, TLC

\* ------------------------------------------------------------------ bounds
MaxTime == 5
MaxSubmits == 2
MaxItems == 1
MaxCallbacks == 2
MaxBudget == 4
MaxRetries == 2
MaxBackoff == 2

\* ------------------------------------------------------- program constants
max_wait_ms == 2
lock_ttl_ms == 3
batch == 200

\* ------------------------------------------------------------ the universe
Keys == {"k1"}
Workers == {"w1", "w2"}
Flusher == "fl"
\* The /cb requests that can be in progress at once
CbReqs == {"c1", "c2"}
Procs == Workers \cup {Flusher}

KeyRank(k) == IF k = "k1" THEN 1 ELSE 2

VARIABLES
  now,        \* the wall clock, in ticks
  latest,     \* Redis: task_key -> HASH {first_submit_ms, order_ts_ms, due_at_ms, job}
  due,        \* Redis: the due ZSET, a set of [k, s] (member, score)
  lock,       \* Redis: task_key -> [owner, exp] for the SET NX PX lock keys
  task,       \* [Procs -> [Keys -> the processor's position on that key]]
  flush,      \* the running flush_all call: pc, force, now_ms, members, queue, processed, max_items
  nextJob,    \* the number of jobs submitted so far
  submits,    \* history: task_key -> sequence of [job, order, at] submitted
  burstFrom,  \* history: task_key -> Len(submits[k]) when its latest hash was last deleted
  dispatched, \* history: sequence of [k, job, sent] calls of dispatch_click_job
  request_log, \* the request_log table: a sequence of rows
  bg,         \* submit_job calls scheduled by track_event after a timed-out submit
  cb,         \* [CbReqs -> the position and locals of a running /cb handler]
  nextCb,     \* the number of /cb requests received so far
  tr,         \* the last /v1/track request and its response
  stop,       \* shutdown_event: its position and the jobs stored when it began
  retry,      \* the running http_send_with_retry call: its locals and what it granted
  calc,       \* the last call of a pure function: its name, arguments and result
  mem         \* the in-memory DebounceManager: _running, _states, its tasks, and history

\* What only shutdown_event, http_send_with_retry, the pure functions and the
\* in-memory DebounceManager touch
aside == <<stop, retry, calc, mem>>

vars == <<now, latest, due, lock, task, flush, nextJob, submits, burstFrom, dispatched,
          request_log, bg, cb, nextCb, tr, stop, retry, calc, mem>>

\* --------------------------------------------------------- Redis commands
Min2(a, b) == IF a < b THEN a ELSE b

ZLess(a, b) == a.s < b.s \/ (a.s = b.s /\ KeyRank(a.k) < KeyRank(b.k))

ZMin(z) == CHOOSE a \in z : \A b \in z \ {a} : ZLess(a, b)

RECURSIVE ZPopMinSeq(_, _)
\* ZPOPMIN key count: the count lowest-scored members, in score order
ZPopMinSeq(z, n) ==
  IF n <= 0 \/ z = {} THEN <<>>
  ELSE <<ZMin(z).k>> \o ZPopMinSeq(z \ {ZMin(z)}, n - 1)

SeqToSet(q) == {q[i] : i \in 1..Len(q)}

ZMembers(z) == {e.k : e \in z}

\* ZREM key member
ZRem(z, k) == {e \in z : e.k # k}

\* ZADD key score member (writes or overwrites the score)
ZAdd(z, k, s) == ZRem(z, k) \cup {[k |-> k, s |-> s]}

\* ZADD key mapping
ZAddAll(z, ks, s) == {e \in z : e.k \notin ks} \cup {[k |-> k, s |-> s] : k \in ks}

\* DEL/UNLINK of a key of a keyspace modelled as a function
Unlink(f, k) == [x \in DOMAIN f \ {k} |-> f[x]]

HSetAll(f, k, v) == [x \in DOMAIN f \cup {k} |-> IF x = k THEN v ELSE f[x]]

\* SET lock_key "1" NX PX ttl succeeds iff the key does not exist (an expired
\* key does not exist)
LockFree(k) == k \notin DOMAIN lock

\* A job as track_event builds it; of its fields the model keeps trace_id and
\* whether a downstream callback_template came with the request
MkJob(trace_id, tmpl) == [trace_id |-> trace_id, callback_template |-> tmpl]

NoJob == MkJob(0, FALSE)

IdleTask == [pc |-> "idle", now_ms |-> 0, due_at_ms |-> 0, job |-> NoJob]

IdleFlush == [pc |-> "idle", force |-> FALSE, now_ms |-> 0, members |-> {},
              queue |-> <<>>, processed |-> 0, max_items |-> 0]

\* No response yet
NoResp == [envelope |-> FALSE, success |-> FALSE, code |-> 0, message |-> "",
           status_code |-> 0]

\* return APIResponse(success=..., code=..., message=...): the body is the
\* envelope; the HTTP status is response.status_code, 200 unless the handler
\* assigned it before returning (status_code is that value)
APIResponse(success, code, message, status_code) ==
  [envelope |-> TRUE, success |-> success, code |-> code, message |-> message,
   status_code |-> status_code]

\* An exception leaves the handler: no handler is registered for it, the server
\* answers 500 with its own body, which is no envelope
Unhandled == [envelope |-> FALSE, success |-> FALSE, code |-> 0,
              message |-> "Internal Server Error", status_code |-> 500]

\* ------------------------------------------- track_event: the request
\* Query values are sequences of characters; an absent optional parameter
\* (None) is the empty one, both being falsy where the handler tests them
Click == <<"c", "l", "i", "c", "k">>

Imp == <<"i", "m", "p">>

DsIds == {<<>>, <<"d">>, <<"_", "_", "D", "_", "_">>, <<" ", "_", "_", "_">>}

EventTypes == {<<>>, Click, Imp, <<"v", "i", "e", "w">>, <<"_", "_", "E", "_", "_">>}

TsValues == {<<>>, <<"1", "2">>, <<" ", "-", "7">>, <<"1", "_", "0">>, <<"1", "x">>,
             <<"1", "_">>, <<"_", "_", "T", "_", "_">>}

\* str.strip(): without leading and trailing whitespace
RECURSIVE LStrip(_)
LStrip(s) == IF s # <<>> /\ Head(s) = " " THEN LStrip(Tail(s)) ELSE s

RECURSIVE RStrip(_)
RStrip(s) == IF s # <<>> /\ s[Len(s)] = " " THEN RStrip(SubSeq(s, 1, Len(s) - 1)) ELSE s

Strip(s) == RStrip(LStrip(s))

\* _is_placeholder: s = value.strip(); s.startswith("__") and s.endswith("__")
IsPlaceholder(value) ==
  IF value = <<>> THEN FALSE
  ELSE LET s == Strip(value) IN
         /\ Len(s) >= 2
         /\ SubSeq(s, 1, 2) = <<"_", "_">>
         /\ SubSeq(s, Len(s) - 1, Len(s)) = <<"_", "_">>

\* _clean_query_placeholders, for one value: a placeholder becomes ""
CleanQueryPlaceholder(val) == IF IsPlaceholder(val) THEN <<>> ELSE val

Digit(ch) == ch \in {"0", "1", "2", "3", "4", "5", "6", "7", "8", "9"}

\* int(ts_val) returns: whitespace around, a sign, then digits, single
\* underscores between digits allowed; anything else raises ValueError
IntLiteral(ts_val) ==
  LET t == Strip(ts_val)
      u == IF t # <<>> /\ Head(t) \in {"+", "-"} THEN Tail(t) ELSE t
  IN /\ u # <<>>
     /\ \A i \in 1..Len(u) :
          \/ Digit(u[i])
          \/ /\ u[i] = "_" /\ 1 < i /\ i < Len(u)
             /\ Digit(u[i - 1]) /\ Digit(u[i + 1])

\* mutant: any event_type that is not empty passes
EventTypeAny(event_type_val) == TRUE

\* event_type_val in ["click", "imp"]
EventTypeKnown(event_type_val) == event_type_val \in {Click, Imp}

\* The checks of ds_id, event_type and ts in their order: the message of the
\* first that fails, "" when all pass
Validate(ds_id, event_type, ts) ==
  LET ds_id_val == CleanQueryPlaceholder(ds_id)
      event_type_val == CleanQueryPlaceholder(event_type)
      ts_val == CleanQueryPlaceholder(ts)
  IN IF ds_id_val = <<>> THEN "ds_id placeholder"
     ELSE IF event_type_val = <<>> THEN "event_type placeholder"
     ELSE IF ~EventTypeKnown(event_type_val) THEN "event_type must be click or imp"
     ELSE IF ts_val # <<>> /\ ~IntLiteral(ts_val) THEN "ts must be a number"
     ELSE ""

\* settings.debounce.enabled as the YAML tree gives it, and the debounce value
\* of the rule find_matching_rule returned: no rule, no such key, a boolean, or
\* a value that is no boolean (0, "false")
GlobalDebounceValues == {"absent", "true", "false"}

RuleDebounceValues == {"no_rule", "absent", "true", "false", "zero", "str_false"}

\* mutant: the rule cannot switch the debounce off
DebounceGlobalOnly(global_value, route_value) == global_value = "true"

\* debounce_enabled: global_debounce = bool(...get("enabled", False)); when it
\* is on, a route_debounce that is a bool decides, any other value gives True
DebounceEnabled(global_value, route_value) ==
  LET global_debounce == global_value = "true"
      route_debounce == IF route_value = "no_rule" THEN "absent" ELSE route_value
  IN IF ~global_debounce THEN FALSE
     ELSE IF route_debounce \in {"true", "false"} THEN route_debounce = "true"
     ELSE TRUE

\* A request as the handler meets it: the three checked values and what
\* routing gives: choose_route's enabled and up_id (present or empty),
\* whether find_upstream_config finds the upstream, and the two debounce
\* switches
GoodReq == [ds_id |-> <<"d">>, event_type |-> Click, ts |-> <<>>,
            enabled |-> TRUE, up_id |-> TRUE, upstream_config |-> TRUE,
            debounce |-> "true", rule_debounce |-> "absent"]

\* The same request with the global debounce switch off
DirectReq == [GoodReq EXCEPT !.debounce = "false"]

\* Requests that differ in the debounce switches
DebounceRequests ==
  {[GoodReq EXCEPT !.debounce = g, !.rule_debounce = r] :
     g \in GlobalDebounceValues, r \in RuleDebounceValues}

\* Requests that differ in the checked values
CheckedRequests ==
  {[GoodReq EXCEPT !.ds_id = d, !.event_type = e, !.ts = t] :
     d \in DsIds, e \in EventTypes, t \in TsValues}

\* Requests that differ in what routing gives
RoutedRequests ==
  {[GoodReq EXCEPT !.enabled = en, !.up_id = up, !.upstream_config = cfg] :
     en \in BOOLEAN, up \in BOOLEAN, cfg \in BOOLEAN}

TrackRequests == CheckedRequests \cup RoutedRequests \cup DebounceRequests

\* if not up_id: ... return
HasUpstream(up_id) == up_id

\* The response of a request that ends before any dispatch, NoResp for one
\* that goes on: the checks (400), route disabled (400), no up_id (400), no
\* upstream config (code 500, response.status_code left at 200). The message
\* "closed" stands for the one of the code, which says that the link is closed
Refusal(req) ==
  LET failed == Validate(req.ds_id, req.event_type, req.ts) IN
    IF failed # "" THEN APIResponse(FALSE, 400, failed, 400)
    ELSE IF ~req.enabled THEN APIResponse(FALSE, 400, "closed", 400)
    ELSE IF ~HasUpstream(req.up_id) THEN APIResponse(FALSE, 400, "closed", 400)
    ELSE IF ~req.upstream_config THEN APIResponse(FALSE, 500, "closed", 200)
    ELSE NoResp

\* The response after a dispatch that returned upstream_status
Dispatched(upstream_status) ==
  IF upstream_status = 200 THEN APIResponse(TRUE, 200, "ok", 200)
  ELSE APIResponse(FALSE, 500, "network_error", 200)

\* No track request yet
NoTrack == [req |-> GoodReq, resp |-> NoResp]

\* shutdown_event has not begun; stored: the jobs in the latest hashes when it
\* calls flush_all, max_items: the bound it passes
NoStop == [pc |-> "idle", stored |-> {}, max_items |-> 0]

\* No http_send_with_retry call is running
IdleRetry == [pc |-> "idle"]

\* No pure function called yet
NoCalc == [op |-> "none"]

\* A /cb handler that is not running. Of the request it keeps rid, whether
\* routes.enabled was on, whether the row was found, whether the adapter's
\* hmac_sha256 verify block met another signature than it computes, whether the rule's callback_events names the event,
\* the two decisions, and what it has done so far: read the table, attempted a
\* write, lost a write (the commit raised), sent to the downstream and with
\* what result (0 before), whether another handler wrote the same row
\* between its two writes, and the is_callback_sent of the row it looked up
IdleCb == [pc |-> "idle", rid |-> 0, callback_template |-> FALSE,
           row_is_callback_sent |-> 0,
           should_callback |-> FALSE, should_throttle |-> FALSE,
           enabled |-> FALSE, row |-> FALSE, bad_sig |-> FALSE, listed |-> FALSE,
           db_read |-> FALSE, db_write |-> FALSE, db_lost |-> FALSE,
           http_sent |-> FALSE, downstream_status |-> 0, raced |-> FALSE,
           resp |-> NoResp]

\* DebounceManager.__init__: not running, no state; no task, submit or send yet
NoMem == [running |-> FALSE, states |-> [x \in {} |-> 0], tasks |-> <<>>,
          subs |-> <<>>, sends |-> <<>>, bursts |-> 0]

SetTask(p, k, t) == [task EXCEPT ![p][k] = t]

\* ------------------------------------------------------------------- Init
\* Everything but the record of the pure function under call
InitStores ==
  /\ now = 0
  /\ latest = [x \in {} |-> 0]
  /\ due = {}
  /\ lock = [x \in {} |-> 0]
  /\ task = [p \in Procs |-> [k \in Keys |-> IdleTask]]
  /\ flush = IdleFlush
  /\ nextJob = 0
  /\ submits = [k \in Keys |-> <<>>]
  /\ burstFrom = [k \in Keys |-> 0]
  /\ dispatched = <<>>
  /\ request_log = <<>>
  /\ bg = {}
  /\ cb = [c \in CbReqs |-> IdleCb]
  /\ nextCb = 0
  /\ tr = NoTrack
  /\ stop = NoStop
  /\ retry = IdleRetry
  /\ mem = NoMem

Init == InitStores /\ calc = NoCalc

\* ------------------------------------------------- submit_job (Lua script)
\* mutant: a tie no longer overwrites (> for >=)
OrderWinsStrict(order_ts_ms, old_order) == order_ts_ms > old_order

\* if order_ts_ms >= old_order then HSET order_ts_ms, job_json
OrderWins(order_ts_ms, old_order) == order_ts_ms >= old_order

\* mutant: a sliding window, counted from the current submit
NewDueSliding(first, now_ms) == now_ms + max_wait_ms

\* local new_due = tonumber(first) + max_wait_ms  (fixed window)
NewDue(first, now_ms) == first + max_wait_ms

\* The latest hash of task_key after the script ran at now_ms (updated_ms is
\* written and never read; it is left out)
LuaLatest(k, now_ms, order_ts_ms, job) ==
  LET first == IF k \in DOMAIN latest THEN latest[k].first_submit_ms ELSE now_ms
      old_order == IF k \in DOMAIN latest THEN latest[k].order_ts_ms ELSE -1
      wins == OrderWins(order_ts_ms, old_order)
  IN  [first_submit_ms |-> first,
       order_ts_ms |-> IF wins THEN order_ts_ms ELSE old_order,
       job |-> IF wins THEN job ELSE latest[k].job,
       due_at_ms |-> NewDue(first, now_ms)]

\* The whole script: HSETs on latest, ZADD on the due set; atomic in Redis.
\* PEXPIRE latest 86400000 lies beyond the horizon MaxTime and never fires here.
LuaSubmit(k, now_ms, order_ts_ms, job) ==
  /\ latest' = HSetAll(latest, k, LuaLatest(k, now_ms, order_ts_ms, job))
  /\ due' = ZAdd(due, k, LuaLatest(k, now_ms, order_ts_ms, job).due_at_ms)

\* order_ts_ms = max(client ts, server now): a client ts ahead of the server
\* clock gives now + 1
OrderChoices == {now, now + 1}

\* history: one more submit of task_key applied to Redis
NoteSubmit(k, order_ts_ms, job) ==
  submits' = [submits EXCEPT
                ![k] = Append(@, [job |-> job.trace_id, order |-> order_ts_ms, at |-> now])]

\* track_event, debounce mode, when submit_job returns in time: a fresh trace_id,
\* the job, and submit_job(key, order_ts_ms, max_wait_ms, job) whose EVAL succeeds
SubmitJob(k, order_ts_ms, tmpl) ==
  /\ nextJob < MaxSubmits
  /\ nextJob' = nextJob + 1
  /\ LuaSubmit(k, now, order_ts_ms, MkJob(nextJob + 1, tmpl))
  /\ NoteSubmit(k, order_ts_ms, MkJob(nextJob + 1, tmpl))
  /\ UNCHANGED <<aside, now, lock, task, flush, burstFrom, dispatched, request_log, bg, cb, nextCb, tr>>

\* ------------------------------------------------------ dispatch_click_job
\* cb_url(): f"{callback_base}/cb?rid={trace_id}", the rid the upstream echoes
CbUrlRid(job) == job.trace_id

\* mutant: the row is keyed by an identifier other than the one in cb_url()
RowRidFresh(job) == job.trace_id + 100

\* reqlog = RequestLog(rid=trace_id, ...)
RowRid(job) == job.trace_id

\* mutant: every 2xx/3xx answer counts as sent
NewRowAnySuccess(job, status) ==
  [rid |-> RowRid(job), cb_rid |-> CbUrlRid(job),
   callback_template |-> job.callback_template,
   track_status |-> IF 200 <= status /\ status < 400 THEN 1 ELSE 2,
   is_callback_sent |-> 0, callback_time |-> FALSE,
   downstream_url |-> "null", callback_params |-> FALSE]

\* The row written after the HTTP attempt; cb_rid is history: the rid that the
\* callback URL of the request that created the row carries
NewRow(job, status) ==
  [rid |-> RowRid(job), cb_rid |-> CbUrlRid(job),
   callback_template |-> job.callback_template,
   track_status |-> IF status = 200 THEN 1 ELSE 2,
   is_callback_sent |-> 0, callback_time |-> FALSE,
   downstream_url |-> "null", callback_params |-> FALSE]

RowsOf(log, rid) == {i \in 1..Len(log) : log[i].rid = rid}

\* mutant: a table without the uniqueness on rid
InsertNoUnique(log, row) == Append(log, row)

\* Insert(RequestLog) with uniqueness on rid: a second row of a rid is refused
\* (the caller logs the failure and goes on)
Insert(log, row) == IF RowsOf(log, row.rid) # {} THEN log ELSE Append(log, row)

\* What the upstream answers (200) or the request ends with otherwise
UpstreamStatuses == {200, 500}

\* dispatch_click_job(job): unless it returns early (route disabled on the
\* re-check, upstream config or outbound adapter missing) the request is sent
\* with cb_url() in it and then the row is inserted
DispatchClickJob(job, sent, status) ==
  request_log' = IF sent THEN Insert(request_log, NewRow(job, status)) ELSE request_log

\* history: dispatch_click_job(job) was called for task_key
NoteDispatch(k, job, sent) ==
  dispatched' = Append(dispatched, [k |-> k, job |-> job.trace_id, sent |-> sent])

\* A call of dispatch_click_job(job) on behalf of task_key, with what it met
DispatchFor(k, job, sent, status) ==
  /\ DispatchClickJob(job, sent, status)
  /\ NoteDispatch(k, job, sent)

\* ------------------------------------------------------------ _worker_loop
AllIdle(p) == \A k \in Keys : task[p][k].pc = "idle"

\* One round of the loop: ZPOPMIN due count=batch, one _process_member task per
\* popped member; the next round starts after gather() returned.
WorkerPop(p) ==
  /\ AllIdle(p)
  /\ due # {}
  /\ LET popped == SeqToSet(ZPopMinSeq(due, batch)) IN
       /\ due' = {e \in due : e.k \notin popped}
       /\ task' = [task EXCEPT ![p] = [k \in Keys |->
                     IF k \in popped THEN [IdleTask EXCEPT !.pc = "start"] ELSE @[k]]]
  /\ UNCHANGED <<aside, now, latest, lock, flush, nextJob, submits, burstFrom, dispatched, request_log, bg, cb, nextCb, tr>>

\* --------------------------------------------------------- _process_member
\* now_ms = time.time(); got = SET lock NX PX 30000; if not got: return
PmLock(p, k) ==
  /\ task[p][k].pc = "start"
  /\ IF LockFree(k)
       THEN /\ lock' = HSetAll(lock, k, [owner |-> p, exp |-> now + lock_ttl_ms])
            /\ task' = SetTask(p, k, [IdleTask EXCEPT !.pc = "hgetall", !.now_ms = now])
       ELSE /\ task' = SetTask(p, k, IdleTask)
            /\ UNCHANGED lock
  /\ UNCHANGED <<aside, now, latest, due, flush, nextJob, submits, burstFrom, dispatched, request_log, bg, cb, nextCb, tr>>

\* mutant: the worker dispatches whatever it popped
DueLaterSkipped(due_at_ms, now_ms) == FALSE

\* if due_at_ms > now_ms: the entry was moved forward after the pop
DueLater(due_at_ms, now_ms) == due_at_ms > now_ms

\* data = HGETALL latest; the three-way branch on data and due_at_ms > now_ms
PmHGetAll(p, k) ==
  /\ task[p][k].pc = "hgetall"
  /\ task' = SetTask(p, k,
       IF k \notin DOMAIN latest
         THEN [task[p][k] EXCEPT !.pc = "zrem_empty"]
       ELSE IF DueLater(latest[k].due_at_ms, task[p][k].now_ms)
         THEN [task[p][k] EXCEPT !.pc = "zadd_back", !.due_at_ms = latest[k].due_at_ms]
       ELSE [task[p][k] EXCEPT !.pc = "dispatch", !.job = latest[k].job])
  /\ UNCHANGED <<aside, now, latest, due, lock, flush, nextJob, submits, burstFrom, dispatched, request_log, bg, cb, nextCb, tr>>

\* HGETALL raises, or int(data.get("due_at_ms", "0")) does: the except clause
\* of the whole body logs "_process_member error" and the task ends
PmReadRaises(p, k) ==
  /\ task[p][k].pc = "hgetall"
  /\ task' = SetTask(p, k, IdleTask)
  /\ UNCHANGED <<aside, now, latest, due, lock, flush, nextJob, submits, burstFrom, dispatched, request_log, bg, cb, nextCb, tr>>

\* if not data: ZREM due task_key (then the lock is unlinked)
PmZremEmpty(p, k) ==
  /\ task[p][k].pc = "zrem_empty"
  /\ due' = ZRem(due, k)
  /\ task' = SetTask(p, k, [IdleTask EXCEPT !.pc = "unlock"])
  /\ UNCHANGED <<aside, now, latest, lock, flush, nextJob, submits, burstFrom, dispatched, request_log, bg, cb, nextCb, tr>>

\* if due_at_ms > now_ms: ZADD due {task_key: due_at_ms} (then the lock is unlinked)
PmZaddBack(p, k) ==
  /\ task[p][k].pc = "zadd_back"
  /\ due' = ZAdd(due, k, task[p][k].due_at_ms)
  /\ task' = SetTask(p, k, [IdleTask EXCEPT !.pc = "unlock"])
  /\ UNCHANGED <<aside, now, latest, lock, flush, nextJob, submits, burstFrom, dispatched, request_log, bg, cb, nextCb, tr>>

\* mutant: a dispatch that did not get a 200 is tried again
AfterDispatchRetry(sent, status) ==
  IF sent /\ status = 200 THEN "del_latest" ELSE "dispatch"

\* try: await dispatch_click_job(job) / except Exception: error(...) / finally:
\* where the task goes on, whatever the call returned or raised
AfterDispatch(sent, status) == "del_latest"

\* await dispatch_click_job(job); a call that raises before the request has
\* sent nothing (sent = FALSE) and is caught by the except clause
PmDispatch(p, k, sent, status) ==
  /\ task[p][k].pc = "dispatch"
  /\ DispatchFor(k, task[p][k].job, sent, status)
  /\ task' = SetTask(p, k, [IdleTask EXCEPT !.pc = AfterDispatch(sent, status)])
  /\ UNCHANGED <<aside, now, latest, due, lock, flush, nextJob, submits, burstFrom, bg, cb, nextCb, tr>>

\* finally: _safe_unlink(latest_key)
PmDelLatest(p, k) ==
  /\ task[p][k].pc = "del_latest"
  /\ latest' = Unlink(latest, k)
  /\ burstFrom' = [burstFrom EXCEPT ![k] = Len(submits[k])]
  /\ task' = SetTask(p, k, [IdleTask EXCEPT !.pc = "zrem"])
  /\ UNCHANGED <<aside, now, due, lock, flush, nextJob, submits, dispatched, request_log, bg, cb, nextCb, tr>>

\* finally: ZREM due task_key
PmZrem(p, k) ==
  /\ task[p][k].pc = "zrem"
  /\ due' = ZRem(due, k)
  /\ task' = SetTask(p, k, [IdleTask EXCEPT !.pc = "unlock"])
  /\ UNCHANGED <<aside, now, latest, lock, flush, nextJob, submits, burstFrom, dispatched, request_log, bg, cb, nextCb, tr>>

\* _safe_unlink(key): UNLINK/DEL of the key, whoever set it
SafeUnlinkLock(k) == Unlink(lock, k)

\* finally: _safe_unlink(lock_key); the task ends
PmUnlock(p, k) ==
  /\ task[p][k].pc = "unlock"
  /\ lock' = SafeUnlinkLock(k)
  /\ task' = SetTask(p, k, IdleTask)
  /\ UNCHANGED <<aside, now, latest, due, flush, nextJob, submits, burstFrom, dispatched, request_log, bg, cb, nextCb, tr>>

\* -------------------------------------------------------------- flush_all
\* flush_all(force, max_items) is entered: processed = 0, now_ms = time.time()
FlushEnter(force, max_items) ==
  /\ flush.pc = "idle"
  /\ flush' = [IdleFlush EXCEPT !.pc = IF force THEN "zrange" ELSE "pop",
                                !.force = force, !.now_ms = now,
                                !.max_items = max_items]

\* A call of flush_all outside the shutdown sequence
FlushStart(force, max_items) ==
  /\ FlushEnter(force, max_items)
  /\ UNCHANGED <<aside, now, latest, due, lock, task, nextJob, submits, burstFrom, dispatched, request_log, bg, cb, nextCb, tr>>

\* force: members = ZRANGE due 0 max_items-1
FlushZRange ==
  /\ flush.pc = "zrange"
  /\ flush' = [flush EXCEPT !.pc = "zadd_now",
                            !.members = SeqToSet(ZPopMinSeq(due, flush.max_items))]
  /\ UNCHANGED <<aside, now, latest, due, lock, task, nextJob, submits, burstFrom, dispatched, request_log, bg, cb, nextCb, tr>>

\* force: if members: ZADD due {m: now_ms for m in members}
FlushZAddNow ==
  /\ flush.pc = "zadd_now"
  /\ due' = ZAddAll(due, flush.members, flush.now_ms)
  /\ flush' = [flush EXCEPT !.pc = "pop", !.members = {}]
  /\ UNCHANGED <<aside, now, latest, lock, task, nextJob, submits, burstFrom, dispatched, request_log, bg, cb, nextCb, tr>>

\* while processed < max_items: popped = ZPOPMIN due count=min(batch, max_items -
\* processed); an empty pop ends the call
FlushPop ==
  /\ flush.pc = "pop"
  /\ IF flush.processed >= flush.max_items
       THEN /\ flush' = IdleFlush
            /\ UNCHANGED due
       ELSE LET popped == ZPopMinSeq(due, Min2(batch, flush.max_items - flush.processed)) IN
            /\ due' = {e \in due : e.k \notin SeqToSet(popped)}
            /\ flush' = IF popped = <<>> THEN IdleFlush
                        ELSE [flush EXCEPT !.pc = "item", !.queue = popped]
  /\ UNCHANGED <<aside, now, latest, lock, task, nextJob, submits, burstFrom, dispatched, request_log, bg, cb, nextCb, tr>>

\* for member in popped: got = SET lock NX PX 30000; if not got: continue.
\* After the last member the while loop goes round again.
FlushLock ==
  /\ flush.pc = "item"
  /\ IF flush.queue = <<>>
       THEN /\ flush' = [flush EXCEPT !.pc = "pop"]
            /\ UNCHANGED <<lock, task>>
       ELSE LET k == Head(flush.queue) IN
            IF LockFree(k)
              THEN /\ lock' = HSetAll(lock, k, [owner |-> Flusher, exp |-> now + lock_ttl_ms])
                   /\ task' = SetTask(Flusher, k, [IdleTask EXCEPT !.pc = "hgetall"])
                   /\ flush' = [flush EXCEPT !.pc = "busy", !.queue = Tail(@)]
              ELSE /\ flush' = [flush EXCEPT !.queue = Tail(@)]
                   /\ UNCHANGED <<lock, task>>
  /\ UNCHANGED <<aside, now, latest, due, nextJob, submits, burstFrom, dispatched, request_log, bg, cb, nextCb, tr>>

\* data = HGETALL latest; no data: clean up; otherwise the job is dispatched,
\* whatever its due_at_ms
FlushHGetAll(k) ==
  /\ task[Flusher][k].pc = "hgetall"
  /\ task' = SetTask(Flusher, k,
       IF k \notin DOMAIN latest
         THEN [IdleTask EXCEPT !.pc = "zrem_empty"]
         ELSE [IdleTask EXCEPT !.pc = "dispatch", !.job = latest[k].job])
  /\ UNCHANGED <<aside, now, latest, due, lock, flush, nextJob, submits, burstFrom, dispatched, request_log, bg, cb, nextCb, tr>>

\* HGETALL raises: the except clause of the item logs "flush_all loop item
\* error" and the loop goes to the next member
FlushReadRaises(k) ==
  /\ task[Flusher][k].pc = "hgetall"
  /\ task' = SetTask(Flusher, k, IdleTask)
  /\ flush' = [flush EXCEPT !.pc = "item"]
  /\ UNCHANGED <<aside, now, latest, due, lock, nextJob, submits, burstFrom, dispatched, request_log, bg, cb, nextCb, tr>>

\* if not data: ZREM due task_key
FlushZremEmpty(k) ==
  /\ task[Flusher][k].pc = "zrem_empty"
  /\ due' = ZRem(due, k)
  /\ task' = SetTask(Flusher, k, [IdleTask EXCEPT !.pc = "unlock_skip"])
  /\ UNCHANGED <<aside, now, latest, lock, flush, nextJob, submits, burstFrom, dispatched, request_log, bg, cb, nextCb, tr>>

\* if not data: finally _safe_unlink(lock_key); continue (processed is not counted)
FlushUnlockSkip(k) ==
  /\ task[Flusher][k].pc = "unlock_skip"
  /\ lock' = SafeUnlinkLock(k)
  /\ task' = SetTask(Flusher, k, IdleTask)
  /\ flush' = [flush EXCEPT !.pc = "item"]
  /\ UNCHANGED <<aside, now, latest, due, nextJob, submits, burstFrom, dispatched, request_log, bg, cb, nextCb, tr>>

\* await dispatch_click_job(job)
FlushDispatch(k, sent, status) ==
  /\ task[Flusher][k].pc = "dispatch"
  /\ DispatchFor(k, task[Flusher][k].job, sent, status)
  /\ task' = SetTask(Flusher, k, [IdleTask EXCEPT !.pc = "del_latest"])
  /\ UNCHANGED <<aside, now, latest, due, lock, flush, nextJob, submits, burstFrom, bg, cb, nextCb, tr>>

\* finally: _safe_unlink(latest_key)
FlushDelLatest(k) ==
  /\ task[Flusher][k].pc = "del_latest"
  /\ latest' = Unlink(latest, k)
  /\ burstFrom' = [burstFrom EXCEPT ![k] = Len(submits[k])]
  /\ task' = SetTask(Flusher, k, [IdleTask EXCEPT !.pc = "zrem"])
  /\ UNCHANGED <<aside, now, due, lock, flush, nextJob, submits, dispatched, request_log, bg, cb, nextCb, tr>>

\* finally: ZREM due task_key
FlushZrem(k) ==
  /\ task[Flusher][k].pc = "zrem"
  /\ due' = ZRem(due, k)
  /\ task' = SetTask(Flusher, k, [IdleTask EXCEPT !.pc = "unlock"])
  /\ UNCHANGED <<aside, now, latest, lock, flush, nextJob, submits, burstFrom, dispatched, request_log, bg, cb, nextCb, tr>>

\* finally: _safe_unlink(lock_key); processed += 1
FlushUnlock(k) ==
  /\ task[Flusher][k].pc = "unlock"
  /\ lock' = SafeUnlinkLock(k)
  /\ task' = SetTask(Flusher, k, IdleTask)
  /\ flush' = [flush EXCEPT !.pc = "item", !.processed = @ + 1]
  /\ UNCHANGED <<aside, now, latest, due, nextJob, submits, burstFrom, dispatched, request_log, bg, cb, nextCb, tr>>

FlushStep ==
  \/ \E f \in BOOLEAN, m \in 1..MaxItems : FlushStart(f, m)
  \/ FlushZRange
  \/ FlushZAddNow
  \/ FlushPop
  \/ FlushLock
  \/ \E k \in Keys : FlushHGetAll(k)
  \/ \E k \in Keys : FlushZremEmpty(k)
  \/ \E k \in Keys : FlushUnlockSkip(k)
  \/ \E k \in Keys, sent \in BOOLEAN, status \in UpstreamStatuses :
       FlushDispatch(k, sent, status)
  \/ \E k \in Keys : FlushDelLatest(k)
  \/ \E k \in Keys : FlushZrem(k)
  \/ \E k \in Keys : FlushUnlock(k)

\* ---------------------------------------------------------- shutdown_event
\* The instance that shuts down runs this worker
OwnWorker == "w1"

\* The jobs of the latest hashes
StoredJobs == {[k |-> k, job |-> latest[k].job] : k \in DOMAIN latest}

\* processed = await mgr.flush_all(force=True, max_items=500): the call is
\* entered, with the worker of the instance still running
ShutdownFlushAll(max_items) ==
  /\ stop.pc = "idle"
  /\ FlushEnter(TRUE, max_items)
  /\ stop' = [pc |-> "flush_all", stored |-> StoredJobs, max_items |-> max_items]
  /\ UNCHANGED <<now, latest, due, lock, task, nextJob, submits, burstFrom, dispatched,
                 request_log, bg, cb, nextCb, tr, retry, calc, mem>>

\* Where a _process_member task goes on when CancelledError is raised at the
\* await it is suspended in, the awaited command not having run: before the
\* first try/finally the task ends (a lock it took stays until its PX expiry),
\* inside one the finally clauses run
Cancelled(t) ==
  CASE t.pc \in {"idle", "start", "hgetall", "unlock"} -> IdleTask
    [] t.pc \in {"zrem_empty", "zadd_back", "del_latest", "zrem"} ->
         [IdleTask EXCEPT !.pc = "unlock"]
    [] t.pc = "dispatch" -> [IdleTask EXCEPT !.pc = "del_latest"]

\* await mgr.shutdown() after flush_all returned: _running = False and
\* _worker_task.cancel(), which cancels the gather() of the round and with it
\* every _process_member task still running; the await returns when their
\* finally clauses are through
Shutdown ==
  /\ stop.pc = "flush_all"
  /\ flush.pc = "idle"
  /\ stop' = [stop EXCEPT !.pc = "done"]
  /\ task' = [task EXCEPT ![OwnWorker] = [k \in Keys |-> Cancelled(@[k])]]
  /\ UNCHANGED <<now, latest, due, lock, flush, nextJob, submits, burstFrom, dispatched,
                 request_log, bg, cb, nextCb, tr, retry, calc, mem>>

\* shutdown() returned
ShutdownEnded == stop.pc = "done" /\ AllIdle(OwnWorker)

\* ------------------------------------------------------------- track_event
\* The outcomes of a submit_job call as its caller sees them. "ok": the EVAL
\* returned. "error_*": the EVAL raised (the reply can be lost after the script
\* ran, or the command never ran) and submit_job falls back to
\* dispatch_click_job. "timeout_*": wait_for cancelled the call after
\* submit_timeout_ms, the script having run or not.
EvalOutcomes == {"ok", "error_applied", "error_lost"}

SubmitOutcomes == EvalOutcomes \cup {"timeout_applied", "timeout_lost"}

\* "timeout_sending": the EVAL raised and wait_for cancelled the call inside
\* the dispatch_click_job of the fallback: http_send passes the cancel on, the
\* request has gone out or not, and the row, inserted after the answer, is not
\* written
WaitForOutcomes == SubmitOutcomes \cup {"timeout_sending"}

\* wait_for raised TimeoutError
TimedOut(outcome) == outcome \in {"timeout_applied", "timeout_lost", "timeout_sending"}

Applied(outcome) == outcome \in {"ok", "error_applied", "timeout_applied"}

\* mutant: a submit_job whose except branch only logs
SubmitJobNoFallback(k, order_ts_ms, job, outcome, sent, status) ==
  /\ IF Applied(outcome)
       THEN LuaSubmit(k, now, order_ts_ms, job) /\ NoteSubmit(k, order_ts_ms, job)
       ELSE UNCHANGED <<latest, due, submits>>
  /\ UNCHANGED <<request_log, dispatched>>

\* submit_job(key, order_ts_ms, max_wait_ms, job) with the given outcome
SubmitJobCall(k, order_ts_ms, job, outcome, sent, status) ==
  /\ IF Applied(outcome)
       THEN LuaSubmit(k, now, order_ts_ms, job) /\ NoteSubmit(k, order_ts_ms, job)
       ELSE UNCHANGED <<latest, due, submits>>
  /\ IF outcome \in {"error_applied", "error_lost"}
       THEN DispatchFor(k, job, sent, status)
     ELSE IF outcome = "timeout_sending"
       THEN NoteDispatch(k, job, sent) /\ UNCHANGED request_log
     ELSE UNCHANGED <<request_log, dispatched>>

\* track_event in debounce mode: a fresh trace_id, the job, submit_job under
\* wait_for; on TimeoutError the same call is scheduled again in the background
TrackDebounce(req, k, order_ts_ms, tmpl, outcome, sent, status) ==
  /\ nextJob < MaxSubmits
  /\ DebounceEnabled(req.debounce, req.rule_debounce)
  /\ Refusal(req) = NoResp
  /\ tr' = [req |-> req, resp |-> APIResponse(TRUE, 200, "ok", 200)]
  /\ nextJob' = nextJob + 1
  /\ SubmitJobCall(k, order_ts_ms, MkJob(nextJob + 1, tmpl), outcome, sent, status)
  /\ bg' = IF TimedOut(outcome)
             THEN bg \cup {[k |-> k, order_ts_ms |-> order_ts_ms,
                            job |-> MkJob(nextJob + 1, tmpl)]}
             ELSE bg
  /\ UNCHANGED <<aside, now, lock, task, flush, burstFrom, cb, nextCb>>

\* The submit_job task created after the timeout runs
BgSubmit(b, outcome, sent, status) ==
  /\ b \in bg
  /\ bg' = bg \ {b}
  /\ SubmitJobCall(b.k, b.order_ts_ms, b.job, outcome, sent, status)
  /\ UNCHANGED <<aside, now, lock, task, flush, nextJob, burstFrom, cb, nextCb, tr>>

\* track_event in debounce mode when the submit raised before reaching Redis:
\* "fallback to direct send" through dispatch_click_job, which returns status
\* (that of the upstream, or of its early return when it sent nothing)
TrackFallback(req, k, tmpl, sent, status) ==
  /\ nextJob < MaxSubmits
  /\ DebounceEnabled(req.debounce, req.rule_debounce)
  /\ Refusal(req) = NoResp
  /\ tr' = [req |-> req, resp |-> Dispatched(status)]
  /\ nextJob' = nextJob + 1
  /\ DispatchFor(k, MkJob(nextJob + 1, tmpl), sent, status)
  /\ UNCHANGED <<aside, now, latest, due, lock, task, flush, submits, burstFrom, bg, cb, nextCb>>

\* _dispatch_to_upstream(trace_id, ...): cb_url() carries trace_id and the row
\* is inserted with rid = trace_id; without an outbound adapter it returns
\* before sending and writes nothing
DispatchToUpstream(trace_id, tmpl, adapter, status, db_ok) ==
  request_log' = IF adapter /\ db_ok
                   THEN Insert(request_log, NewRow(MkJob(trace_id, tmpl), status))
                   ELSE request_log

\* track_event for a request that fails a check or finds its route closed: it
\* returns before the job is built
TrackRefuse(req) ==
  /\ Refusal(req) # NoResp
  /\ tr' = [req |-> req, resp |-> Refusal(req)]
  /\ UNCHANGED <<aside, now, latest, due, lock, task, flush, nextJob, submits, burstFrom,
                 dispatched, request_log, bg, cb, nextCb>>

\* track_event without debounce: a fresh trace_id, sent at once; without an
\* outbound adapter _dispatch_to_upstream returns 200
TrackDirect(req, tmpl, adapter, status, db_ok) ==
  /\ nextJob < MaxSubmits
  /\ ~DebounceEnabled(req.debounce, req.rule_debounce)
  /\ Refusal(req) = NoResp
  /\ tr' = [req |-> req, resp |-> Dispatched(IF adapter THEN status ELSE 200)]
  /\ nextJob' = nextJob + 1
  /\ DispatchToUpstream(nextJob + 1, tmpl, adapter, status, db_ok)
  /\ UNCHANGED <<aside, now, latest, due, lock, task, flush, submits, burstFrom, dispatched,
                 bg, cb, nextCb>>

\* ------------------------------------------------------------ choose_route
\* dict.get(key, default)
Get(d, key, default) == IF key \in DOMAIN d THEN d[key] ELSE default

\* None
None == "None"

\* Entries of a route's "rules" list: two for the value "x" that differ in
\* everything they return, one for "y"; the first leaves enabled and throttle out
RuleX1 == [equals |-> "x", upstream |-> "u1", downstream |-> "d1"]
RuleX2 == [equals |-> "x", upstream |-> "u2", downstream |-> "d2",
           enabled |-> FALSE, throttle |-> 20]
RuleY == [equals |-> "y", upstream |-> "u3", enabled |-> TRUE, throttle |-> 100]

RuleLists == {<<>>, <<RuleX1>>, <<RuleX2, RuleX1>>, <<RuleX1, RuleX2>>,
              <<RuleY>>, <<RuleY, RuleX2>>}

MatchKeys == {"ad_id", "campaign_id", "geo"}

\* Entries of config["routes"], with and without the fallback keys
RouteEntries ==
  {[match_key |-> m, rules |-> l, fallback_upstream |-> "fu",
    fallback_downstream |-> "fd", fallback_enabled |-> FALSE,
    fallback_throttle |-> 50] : m \in MatchKeys, l \in RuleLists}
  \cup {[match_key |-> m, rules |-> l] : m \in MatchKeys, l \in RuleLists}

\* Longest "routes" list of the model
MaxRoutes == 2

RoutesLists == UNION {[1..n -> RouteEntries] : n \in 0..MaxRoutes}

RouteConfigs == {[routes |-> r] : r \in RoutesLists} \cup {[settings |-> "s"]}

RouteUdms ==
  {[ad |-> [ad_id |-> a, campaign_id |-> c]] : a \in {"", "x", "y"}, c \in {"", "x"}}
  \cup {[ad |-> [ad_id |-> "x"]], [device |-> "d"]}

\* (upstream_id, downstream_id, enabled, throttle)
RouteTuple(upstream, downstream, enabled, throttle) ==
  [upstream |-> upstream, downstream |-> downstream, enabled |-> enabled,
   throttle |-> throttle]

\* for r in rule_list: if r.get("equals") == value: return ...; 0 for no hit
RECURSIVE FirstEquals(_, _, _)
FirstEquals(rule_list, value, j) ==
  IF j > Len(rule_list) THEN 0
  ELSE IF Get(rule_list[j], "equals", None) = value THEN j
  ELSE FirstEquals(rule_list, value, j + 1)

\* The tuple returned for the rule r
RuleTuple(r) ==
  RouteTuple(Get(r, "upstream", None), Get(r, "downstream", None),
             Get(r, "enabled", TRUE), Get(r, "throttle", 0))

\* The value a route entry is matched on, "" when the branch is not taken
MatchValue(rule, campaign_id, ad_id) ==
  IF Get(rule, "match_key", "") = "campaign_id" /\ campaign_id # "" THEN campaign_id
  ELSE IF Get(rule, "match_key", "") = "ad_id" /\ ad_id # "" THEN ad_id
  ELSE ""

\* for rule in rules: ...; <<>> when the loop ends without a return
RECURSIVE ScanRoutes(_, _, _, _)
ScanRoutes(rules, campaign_id, ad_id, i) ==
  IF i > Len(rules) THEN <<>>
  ELSE LET rule == rules[i]
           value == MatchValue(rule, campaign_id, ad_id)
           rule_list == Get(rule, "rules", <<>>)
           j == IF value = "" THEN 0 ELSE FirstEquals(rule_list, value, 1)
       IN IF j > 0 THEN <<RuleTuple(rule_list[j])>>
          ELSE ScanRoutes(rules, campaign_id, ad_id, i + 1)

\* The tuple of the fallback keys of a route entry
FallbackTuple(rule) ==
  RouteTuple(Get(rule, "fallback_upstream", None), Get(rule, "fallback_downstream", None),
             Get(rule, "fallback_enabled", TRUE), Get(rule, "fallback_throttle", 0))

\* mutant: the fallback is taken from the last route
ChooseRouteLastFallback(udm, config) ==
  LET rules == Get(config, "routes", <<>>)
      ad_info == Get(udm, "ad", [none |-> ""])
      campaign_id == Get(ad_info, "campaign_id", "")
      ad_id == Get(ad_info, "ad_id", "")
      hit == ScanRoutes(rules, campaign_id, ad_id, 1)
  IN IF rules = <<>> THEN RouteTuple(None, None, FALSE, 0)
     ELSE IF hit # <<>> THEN hit[1]
     ELSE FallbackTuple(rules[Len(rules)])

\* choose_route(udm, config)
ChooseRoute(udm, config) ==
  LET rules == Get(config, "routes", <<>>)
      ad_info == Get(udm, "ad", [none |-> ""])
      campaign_id == Get(ad_info, "campaign_id", "")
      ad_id == Get(ad_info, "ad_id", "")
      hit == ScanRoutes(rules, campaign_id, ad_id, 1)
  IN IF rules = <<>> THEN RouteTuple(None, None, FALSE, 0)
     ELSE IF hit # <<>> THEN hit[1]
     ELSE FallbackTuple(rules[1])

\* The arguments of a call of choose_route
InitRoute ==
  /\ InitStores
  /\ calc \in {[op |-> "choose_route_args", udm |-> u, config |-> c] :
                 u \in RouteUdms, c \in RouteConfigs}

\* The call of choose_route
ChooseRouteCall ==
  /\ calc.op = "choose_route_args"
  /\ calc' = [op |-> "choose_route", udm |-> calc.udm, config |-> calc.config,
              out |-> ChooseRoute(calc.udm, calc.config)]
  /\ UNCHANGED <<now, latest, due, lock, task, flush, nextJob, submits, burstFrom,
                 dispatched, request_log, bg, cb, nextCb, tr, stop, retry, mem>>

\* ------------------------------------- dispatch_click_job: the route recheck
\* {} of Python
EmptyDict == <<>>

\* if x: of a string or None
Truthy(x) == x \notin {None, ""}

\* routing_udm = {"ad": udm.get("ad") or {}, "meta": {"downstream_id": ...}}
RoutingUdm(udm) ==
  [ad |-> Get(udm, "ad", EmptyDict),
   meta |-> [downstream_id |-> Get(Get(udm, "meta", EmptyDict), "downstream_id", None)]]

\* mutant: only a disabled route drops the job
RecheckDropsDisabledOnly(udm, upstream_id, config) ==
  ~ChooseRoute(RoutingUdm(udm), config).enabled

\* current_up_id, _, current_enabled, _ = choose_route(routing_udm, CONFIG);
\* (not current_enabled) or (current_up_id and current_up_id != upstream_id)
RecheckDrops(udm, upstream_id, config) ==
  LET cur == ChooseRoute(RoutingUdm(udm), config)
  IN ~cur.enabled \/ (Truthy(cur.upstream) /\ cur.upstream # upstream_id)

\* What dispatch_click_job returns before it sends, or "send" when it goes on
\* to the request: the recheck (an exception in it is logged and the job goes
\* on), find_upstream_config, get_adapter_config
BeforeSend(udm, upstream_id, config, raises, upstream_config, adapter) ==
  IF ~raises /\ RecheckDrops(udm, upstream_id, config)
    THEN [status |-> 200, msg |-> "route_disabled_drop"]
  ELSE IF ~upstream_config THEN [status |-> 500, msg |-> "upstream_not_found"]
  ELSE IF ~adapter THEN [status |-> 200, msg |-> "no_adapter"]
  ELSE [status |-> 0, msg |-> "send"]

\* The job's upstream_id as recorded when the click was accepted
JobUpstreams == {"u1", "u2", "fu"}

\* A route that matches no ad of the model, before another one
RouteGeo == [match_key |-> "geo", rules |-> <<RuleX2>>]

\* CONFIG at dispatch time: no routes key, no route, one route, or one route
\* behind RouteGeo
RecheckConfigs ==
  {[settings |-> "s"], [routes |-> <<>>]}
  \cup {[routes |-> <<r>>] : r \in RouteEntries}
  \cup {[routes |-> <<RouteGeo, r>>] : r \in RouteEntries}

\* The job and what the call meets: whether the recheck raises, whether the
\* upstream of the job is configured and has an outbound adapter
InitRecheck ==
  /\ InitStores
  /\ calc \in [op : {"dispatch_args"}, udm : RouteUdms, upstream_id : JobUpstreams,
                config : RecheckConfigs, raises : BOOLEAN,
                upstream_config : BOOLEAN, adapter : BOOLEAN]

\* dispatch_click_job(job) from the recheck to the row
DispatchRechecked(status) ==
  /\ calc.op = "dispatch_args"
  /\ LET early == BeforeSend(calc.udm, calc.upstream_id, calc.config, calc.raises,
                             calc.upstream_config, calc.adapter)
         sent == early.msg = "send"
     IN /\ DispatchClickJob(MkJob(1, TRUE), sent, status)
        /\ calc' = [calc EXCEPT !.op = "dispatch_click_job"] @@
                    [sent |-> sent,
                     out |-> IF sent THEN [status |-> status, msg |-> "response"]
                             ELSE early]
  /\ UNCHANGED <<now, latest, due, lock, task, flush, nextJob, submits, burstFrom,
                 dispatched, bg, cb, nextCb, tr, stop, retry, mem>>

NextRecheck == \E status \in UpstreamStatuses : DispatchRechecked(status)

SpecRecheck == InitRecheck /\ [][NextRecheck]_vars

\* --------------------------------------------------------- _apply_function
\* Strings are sequences of characters. The characters of the values: the
\* hex digits 0, 2, 5, the percent sign, and what the pairs of these digits
\* decode to (%20 space, %22 quotation mark, %25 percent, %50 P, %52 R, %55 U,
\* %00 NUL, %02 STX, %05 ENQ)
HexDigits == {"0", "2", "5"}

\* The characters urllib.parse.quote(safe="") leaves as they are
Unreserved == {"0", "2", "5", "P", "R", "U"}

\* The byte %h1h2 stands for
HexDecode(h1, h2) ==
  CASE h1 = "2" /\ h2 = "0" -> " "
    [] h1 = "2" /\ h2 = "2" -> "quot"
    [] h1 = "2" /\ h2 = "5" -> "%"
    [] h1 = "5" /\ h2 = "0" -> "P"
    [] h1 = "5" /\ h2 = "2" -> "R"
    [] h1 = "5" /\ h2 = "5" -> "U"
    [] h1 = "0" /\ h2 = "0" -> "NUL"
    [] h1 = "0" /\ h2 = "2" -> "STX"
    [] h1 = "0" /\ h2 = "5" -> "ENQ"

\* The %XX a character is quoted as
HexEncode(ch) ==
  CASE ch = " " -> <<"%", "2", "0">>
    [] ch = "quot" -> <<"%", "2", "2">>
    [] ch = "%" -> <<"%", "2", "5">>
    [] ch = "NUL" -> <<"%", "0", "0">>
    [] ch = "STX" -> <<"%", "0", "2">>
    [] ch = "ENQ" -> <<"%", "0", "5">>

\* urllib.parse.quote(s, safe="")
RECURSIVE Quote(_)
Quote(s) ==
  IF s = <<>> THEN <<>>
  ELSE (IF Head(s) \in Unreserved THEN <<Head(s)>> ELSE HexEncode(Head(s)))
         \o Quote(Tail(s))

\* urllib.parse.unquote(s): a % followed by two hex digits is decoded, any other
\* % stays
RECURSIVE Unquote(_)
Unquote(s) ==
  IF s = <<>> THEN <<>>
  ELSE IF Head(s) = "%" /\ Len(s) >= 3 /\ s[2] \in HexDigits /\ s[3] \in HexDigits
    THEN <<HexDecode(s[2], s[3])>> \o Unquote(SubSeq(s, 4, Len(s)))
  ELSE <<Head(s)>> \o Unquote(Tail(s))

\* while True: u = unquote(s); if u == s: break; s = u
RECURSIVE UnquoteUntilStable(_)
UnquoteUntilStable(s) ==
  LET u == Unquote(s) IN IF u = s THEN s ELSE UnquoteUntilStable(u)

\* mutant: the value is encoded without being decoded first
NormalizeEncodeNoDecode(val) == Quote(val)

\* fn == "normalize_encode()"
NormalizeEncode(val) == Quote(UnquoteUntilStable(val))

\* fn == "url_encode()"
UrlEncode(val) == Quote(val)

EncodeFunctions == {"url_encode()", "normalize_encode()"}

\* _apply_function(val, fn) for the two encoding functions
ApplyFunction(val, fn) ==
  IF fn = "url_encode()" THEN UrlEncode(val) ELSE NormalizeEncode(val)

\* Longest value the pipeline is given
MaxChars == 5

\* Longest pipeline "f1() | f2()"
MaxPipe == 2

InputChars == {"%", "2", "5", " "}

EncodeInputs == UNION {[1..n -> InputChars] : n \in 0..MaxChars}

\* A value before the first function of a pipeline
InitEncode ==
  /\ InitStores
  /\ calc \in {[op |-> "pipe", fns |-> <<>>, vals |-> <<s>>] : s \in EncodeInputs}

\* The next function of the pipeline is applied to the value
ApplyNext(fn) ==
  /\ calc.op = "pipe"
  /\ Len(calc.fns) < MaxPipe
  /\ calc' = [calc EXCEPT !.fns = Append(@, fn),
                          !.vals = Append(@, ApplyFunction(calc.vals[Len(calc.vals)], fn))]
  /\ UNCHANGED <<now, latest, due, lock, task, flush, nextJob, submits, burstFrom,
                 dispatched, request_log, bg, cb, nextCb, tr, stop, retry, mem>>

\* ------------------------------------------------ _clean_query_placeholders
\* Longest query value of the model
MaxValueLen == 5

QueryChars == {"_", "x", " "}

QueryValues == UNION {[1..n -> QueryChars] : n \in 0..MaxValueLen}

\* A query parameter value before the cleaning
InitClean ==
  /\ InitStores
  /\ calc \in {[op |-> "query_value", val |-> v] : v \in QueryValues}

\* cleaned[key] = "" if isinstance(val, str) and _is_placeholder(val) else val
CleanCall ==
  /\ calc.op = "query_value"
  /\ calc' = [op |-> "cleaned", val |-> calc.val, out |-> CleanQueryPlaceholder(calc.val)]
  /\ UNCHANGED <<now, latest, due, lock, task, flush, nextJob, submits, burstFrom,
                 dispatched, request_log, bg, cb, nextCb, tr, stop, retry, mem>>

\* ------------------------------------------------ should_throttle_callback
\* Scores and rates are counted in 1/65536: a rate r stands for r / 65536
ScoreUnits == 65536

\* The rids of the model
ThrottleRids == {"a", "b", "c"}

\* calculate_throttle_score(rid) = int.from_bytes(md5(rid)[:8]) / 2**64, cut
\* to its first 16 bits: md5("a") = 0cc1..., md5("b") = 92eb..., md5("c") =
\* 4a8a... . For a rate r / 65536 the comparison score < rate is decided by
\* these bits
CalculateThrottleScore(rid) ==
  CASE rid = "a" -> 3265
    [] rid = "b" -> 37611
    [] rid = "c" -> 19082

\* Rates below 0, 0, at and next to the scores, 0.5, next to 1, 1 and above
ThrottleRates ==
  {-1, 0, 1, 3265, 3266, 19082, 19083, 32768, 37611, 37612, 65535, 65536, 65537}

\* mutant: a score equal to the rate is throttled too
ShouldThrottleAtRate(rid, throttle_rate) ==
  IF throttle_rate <= 0 THEN FALSE
  ELSE IF throttle_rate >= ScoreUnits THEN TRUE
  ELSE CalculateThrottleScore(rid) <= throttle_rate

\* should_throttle_callback(rid, throttle_rate)
ShouldThrottleCallback(rid, throttle_rate) ==
  IF throttle_rate <= 0 THEN FALSE
  ELSE IF throttle_rate >= ScoreUnits THEN TRUE
  ELSE CalculateThrottleScore(rid) < throttle_rate

\* A call of should_throttle_callback; prev keeps the call before it
ThrottleCall(rid, throttle_rate) ==
  /\ calc' = [op |-> "should_throttle_callback", rid |-> rid, rate |-> throttle_rate,
              out |-> ShouldThrottleCallback(rid, throttle_rate),
              prev |-> IF calc.op = "should_throttle_callback"
                         THEN <<[rid |-> calc.rid, rate |-> calc.rate, out |-> calc.out]>>
                         ELSE <<>>]
  /\ UNCHANGED <<now, latest, due, lock, task, flush, nextJob, submits, burstFrom,
                 dispatched, request_log, bg, cb, nextCb, tr, stop, retry, mem>>

\* ---------------------------------------------------- http_send_with_retry
\* Time is counted in ticks of 50 ms; the lower limit of 100 ms that an attempt
\* is given
MinAttemptTimeout == 2

Max2(a, b) == IF a > b THEN a ELSE b

\* What http_send returns: the status of the answer (a 408 of the peer
\* included), 408 after httpx.TimeoutException, 503 after ConnectError
HttpStatuses == {200, 302, 404, 408, 503}

\* mutant: every failure is tried again
RetryAnyFailure(status) == status >= 400

\* if 200 <= status < 400: break; if status != 408: break
Retryable(status) == ~(200 <= status /\ status < 400) /\ status = 408

\* last_status, last_response = 500, {"error": "no_attempt"}; deadline =
\* start + timeout_ms; attempt = 0. clock is the time since start, sent the
\* statuses of the attempts made, granted and slept the sums of the attempt
\* timeouts and of the sleeps
RetryCall(timeout_ms, max_retries, backoff_ms) ==
  /\ retry.pc = "idle"
  /\ retry' = [pc |-> "loop", timeout_ms |-> timeout_ms, max_retries |-> max_retries,
               backoff_ms |-> backoff_ms, clock |-> 0, attempt |-> 0,
               last_status |-> 500, no_attempt |-> TRUE, sent |-> <<>>,
               granted |-> 0, slept |-> 0, timed_out |-> TRUE, result |-> 0]
  /\ UNCHANGED <<now, latest, due, lock, task, flush, nextJob, submits, burstFrom,
                 dispatched, request_log, bg, cb, nextCb, tr, stop, calc, mem>>

\* The result of the call
RetryDone(r, status) == [r EXCEPT !.pc = "done", !.result = status]

\* One round of the while loop up to its break, return or sleep: the attempt
\* is given max(100 ms, remaining) and http_send returns status after elapsed;
\* client_timeout says that httpx gave up, which takes the whole timeout
RetryAttempt(status, elapsed, client_timeout) ==
  /\ retry.pc = "loop"
  /\ LET remaining == retry.timeout_ms - retry.clock
         per_attempt_timeout_ms == Max2(MinAttemptTimeout, remaining)
         after == [retry EXCEPT !.clock = @ + elapsed, !.last_status = status,
                                !.no_attempt = FALSE, !.sent = Append(@, status),
                                !.granted = @ + per_attempt_timeout_ms,
                                !.timed_out = @ /\ client_timeout]
     IN IF ~(retry.attempt <= retry.max_retries)
          THEN /\ status = 200 /\ elapsed = 0 /\ ~client_timeout
               /\ retry' = RetryDone(retry, retry.last_status)
        ELSE IF remaining <= 0
          THEN /\ status = 200 /\ elapsed = 0 /\ ~client_timeout
               /\ retry' = RetryDone(retry, IF retry.no_attempt THEN 408
                                             ELSE retry.last_status)
        ELSE /\ elapsed <= per_attempt_timeout_ms
             /\ client_timeout => status = 408 /\ elapsed = per_attempt_timeout_ms
             /\ retry' =
                  IF ~Retryable(status) THEN RetryDone(after, status)
                  ELSE IF retry.attempt + 1 > retry.max_retries
                    THEN RetryDone([after EXCEPT !.attempt = @ + 1], status)
                  ELSE IF retry.timeout_ms - after.clock <= 0
                    THEN RetryDone([after EXCEPT !.attempt = @ + 1], status)
                  ELSE [after EXCEPT !.attempt = @ + 1, !.pc = "sleep"]
  /\ UNCHANGED <<now, latest, due, lock, task, flush, nextJob, submits, burstFrom,
                 dispatched, request_log, bg, cb, nextCb, tr, stop, calc, mem>>

\* sleep_sec = min(backoff_ms, remaining); await asyncio.sleep(sleep_sec)
RetrySleep ==
  /\ retry.pc = "sleep"
  /\ LET sleep_sec == Min2(retry.backoff_ms, retry.timeout_ms - retry.clock) IN
       retry' = [retry EXCEPT !.pc = "loop", !.clock = @ + sleep_sec,
                              !.slept = @ + sleep_sec]
  /\ UNCHANGED <<now, latest, due, lock, task, flush, nextJob, submits, burstFrom,
                 dispatched, request_log, bg, cb, nextCb, tr, stop, calc, mem>>

\* The caller has the result
RetryReturn ==
  /\ retry.pc = "done"
  /\ retry' = IdleRetry
  /\ UNCHANGED <<now, latest, due, lock, task, flush, nextJob, submits, burstFrom,
                 dispatched, request_log, bg, cb, nextCb, tr, stop, calc, mem>>

\* ------------------------------------------------ handle_upstream_callback
\* What the /cb handler never touches
trackSide == <<now, latest, due, lock, task, flush, nextJob, submits, burstFrom,
               dispatched, bg, tr, aside>>

\* select(RequestLog).where(RequestLog.rid == rid) ... scalar_one_or_none()
FindByRid(log, rid) == RowsOf(log, rid) # {}

\* obj.f = v for each of the given fields
SetFields(r, fields) ==
  [f \in DOMAIN r |-> IF f \in DOMAIN fields THEN fields[f] ELSE r[f]]

\* mutant: the changed object is written as a new row
UpdateByRidAppend(log, rid, fields) ==
  log \o SelectSeq([i \in 1..Len(log) |-> SetFields(log[i], fields)],
                   LAMBDA r : r.rid = rid)

\* obj = scalar_one_or_none(); if obj: obj.f = v ...; commit()
UpdateByRid(log, rid, fields) ==
  [i \in 1..Len(log) |->
     IF log[i].rid = rid THEN SetFields(log[i], fields) ELSE log[i]]

\* whitelist miss: callback_params, downstream_url = None, is_callback_sent = 4
SkipWrite ==
  [callback_params |-> TRUE, downstream_url |-> "null", is_callback_sent |-> 4]

\* final_downstream_url: the template with its macros replaced, None without one
FinalDownstreamUrl(callback_template) == IF callback_template THEN "url" ELSE "null"

\* before the dispatch: callback_params, downstream_url, is_callback_sent = 0
PreWrite(callback_template) ==
  [callback_params |-> TRUE,
   downstream_url |-> FinalDownstreamUrl(callback_template),
   is_callback_sent |-> 0]

\* throttled: is_callback_sent = 2, callback_time = now
ThrottleWrite == [is_callback_sent |-> 2, callback_time |-> TRUE]

\* downstream answered 200: is_callback_sent = 1, callback_time = now
SentWrite == [is_callback_sent |-> 1, callback_time |-> TRUE]

\* mutant: the failure is recorded without its time
FailWriteUntimed == [is_callback_sent |-> 3]

\* downstream answered otherwise, or the send raised: 3, callback_time = now
FailWrite == [is_callback_sent |-> 3, callback_time |-> TRUE]

\* What the downstream answers; Raised stands for http_send_with_retry raising
Raised == -1

DownstreamStatuses == {200, 500}

DownstreamOutcomes == DownstreamStatuses \cup {Raised}

\* The rid parameter of a request: 0 stands for a request without one; a rid of
\* a track request that wrote no row (yet) is an unknown rid
RidChoices == 0..MaxSubmits

\* Event names are sequences of characters
EventNames == {<<"a">>, <<"A", "_">>, <<"b">>}

\* str.lower() of one character
Lower(ch) == IF ch = "A" THEN "a" ELSE ch

\* _normalize_event_key: re.sub(r'[-_\s]+', '', str(raw).strip().lower())
RECURSIVE NormalizeEventKey(_)
NormalizeEventKey(raw) ==
  IF raw = <<>> THEN <<>>
  ELSE (IF Lower(Head(raw)) \in {"_", "-", " "} THEN <<>> ELSE <<Lower(Head(raw))>>)
         \o NormalizeEventKey(Tail(raw))

\* udm.event.name of a callback: None or a name
Events == {[is_none |-> TRUE, name |-> <<>>]}
            \cup {[is_none |-> FALSE, name |-> n] : n \in EventNames}

\* rule.callback_events: absent, a list of names, a mapping whose keys are
\* names (none_value: its values are None), one name as a string, or a value of
\* another type (a number). The items of a string are the one name, none for ""
Whitelists ==
  {[kind |-> "absent", items |-> {}, none_value |-> FALSE],
   [kind |-> "other", items |-> {}, none_value |-> FALSE]}
    \cup {[kind |-> "list", items |-> S, none_value |-> FALSE] :
            S \in {{}, {<<"a">>}, {<<"A", "_">>, <<"b">>}}}
    \cup {[kind |-> "dict", items |-> S, none_value |-> v] :
            S \in {{}, {<<"A", "_">>}, {<<"b">>}}, v \in BOOLEAN}
    \cup {[kind |-> "str", items |-> S, none_value |-> FALSE] :
            S \in {{}, {<<"A", "_">>}, {<<"b">>}}}

\* if not whitelist: None, an empty list, mapping or string
Falsy(whitelist) == whitelist.kind = "absent" \/ (whitelist.kind # "other" /\ whitelist.items = {})

\* The normalised name is among the normalised items
InNormalized(whitelist, event) ==
  NormalizeEventKey(event.name) \in {NormalizeEventKey(x) : x \in whitelist.items}

\* mutant: a missing or empty callback_events lets every event through
ShouldCallbackOpen(whitelist, event) ==
  [should_callback |-> TRUE, remapped |-> FALSE]

\* _should_callback_and_remap_event: (should_callback, remapped is not None)
ShouldCallbackAndRemapEvent(whitelist, event) ==
  IF Falsy(whitelist) \/ event.is_none
    THEN [should_callback |-> FALSE, remapped |-> FALSE]
  ELSE IF whitelist.kind = "dict"
    THEN IF InNormalized(whitelist, event) /\ ~whitelist.none_value
           THEN [should_callback |-> TRUE, remapped |-> TRUE]
           ELSE [should_callback |-> FALSE, remapped |-> FALSE]
  ELSE IF whitelist.kind \in {"list", "str"}
    THEN [should_callback |-> InNormalized(whitelist, event), remapped |-> FALSE]
  ELSE [should_callback |-> FALSE, remapped |-> FALSE]

\* The verify block of the inbound adapter: none, hmac_sha256, or another type
VerifyTypes == {"none", "hmac_sha256", "md5"}

\* Signatures: the one supplied and the one recomputed from message and secret
Sigs == {"s1", "s2"}

\* mutant: every signature is accepted
VerifyAnySignature(verify_type, actual_sig, expected_sig) == TRUE

\* if verify_config: _verify_callback_signature(...): str(actual_sig) ==
\* expected_sig for hmac_sha256, False for any other type
VerifyCallbackSignature(verify_type, actual_sig, expected_sig) ==
  IF verify_type = "none" THEN TRUE
  ELSE IF verify_type = "hmac_sha256" THEN actual_sig = expected_sig
  ELSE FALSE

\* mutant: the switch is not consulted
GlobalEnabledAlways(enabled) == TRUE

\* global_enabled = bool(CONFIG settings.routes.enabled), True when absent
GlobalEnabled(enabled) == enabled

\* mutant: routing_udm is bound whether or not a row was found
RoutingUdmAlways(found) == TRUE

\* routing_udm is assigned under "if row:" only
RoutingUdmBound(found) == found

\* What one request meets: routes.enabled, whether the row lookup works, the
\* verify block and the two signatures, callback_events and the event name, the
\* throttle decision
CbInputs ==
  [enabled : BOOLEAN, lookup_ok : BOOLEAN, verify_type : VerifyTypes,
   actual_sig : Sigs, expected_sig : Sigs, whitelist : Whitelists,
   event : Events, should_throttle : BOOLEAN]

\* The requests one at a time: a value the handler does not look at (the
\* request ended before) is given once: with routing off or a failing lookup
\* the rest, without a verify block the signature, with a refused signature
\* the whitelist, the event and the throttle
CbRequests ==
  {q \in CbInputs :
     /\ q.expected_sig = "s1"
     /\ q.verify_type # "hmac_sha256" => q.actual_sig = "s1"
     /\ (~q.enabled \/ ~q.lookup_ok) =>
          q.verify_type = "none" /\ q.actual_sig = "s1"
     /\ (~q.enabled \/ ~q.lookup_ok \/ q.verify_type = "md5" \/ q.actual_sig # "s1") =>
          /\ q.whitelist.kind = "absent"
          /\ q.event.is_none
          /\ ~q.should_throttle
     /\ ~q.enabled => q.lookup_ok}

\* The handler c at position pc with response resp
SetCb(c, pc, resp) == [cb EXCEPT ![c].pc = pc, ![c].resp = resp]

\* The handler up to its first write: rid, the routes.enabled switch, the row
\* lookup, the signature check (only with a row, whose up_id leads to the
\* adapter), the whitelist and the throttle decision. Without a row
\* routing_udm is never bound and the whitelist call raises NameError, which
\* nothing catches.
CbReceive(c, rid, q) ==
  /\ cb[c].pc = "idle"
  /\ nextCb < MaxCallbacks
  /\ nextCb' = nextCb + 1
  /\ LET found == q.lookup_ok /\ FindByRid(request_log, rid)
         sig_ok == VerifyCallbackSignature(q.verify_type, q.actual_sig, q.expected_sig)
         sc == ShouldCallbackAndRemapEvent(q.whitelist, q.event).should_callback
         req == [IdleCb EXCEPT !.rid = rid, !.enabled = q.enabled]
         looked == [req EXCEPT
                      !.db_read = TRUE, !.row = found,
                      !.row_is_callback_sent =
                        IF found
                          THEN request_log[CHOOSE i \in RowsOf(request_log, rid) : TRUE]
                                 .is_callback_sent
                          ELSE 0,
                      !.bad_sig = (/\ found /\ q.verify_type = "hmac_sha256"
                                   /\ q.actual_sig # q.expected_sig)]
     IN cb' = [cb EXCEPT ![c] =
          IF rid = 0
            THEN [IdleCb EXCEPT !.pc = "done",
                                !.resp = APIResponse(FALSE, 500, "Missing rid", 500)]
          ELSE IF ~GlobalEnabled(q.enabled)
            THEN [req EXCEPT !.pc = "done", !.resp = APIResponse(TRUE, 200, "ok", 200)]
          ELSE IF found /\ ~sig_ok
            THEN [looked EXCEPT
                    !.pc = "done",
                    !.resp = APIResponse(FALSE, 500, "Invalid signature", 500)]
          ELSE IF ~RoutingUdmBound(found)
            THEN [looked EXCEPT !.pc = "done", !.resp = Unhandled]
          ELSE [looked EXCEPT
                  !.pc = IF sc THEN "pre_write" ELSE "skip_write",
                  !.callback_template =
                    IF found
                      THEN request_log[CHOOSE i \in RowsOf(request_log, rid) : TRUE]
                             .callback_template
                      ELSE FALSE,
                  !.listed = (~q.event.is_none /\ InNormalized(q.whitelist, q.event)),
                  !.should_callback = sc,
                  !.should_throttle = (sc /\ q.should_throttle)]]
  /\ UNCHANGED <<trackSide, request_log>>

\* A write of the handler: every one is wrapped in try/except, so a failing
\* session or commit (db_ok = FALSE) is logged and the handler goes on
CbWrite(c, db_ok, fields) ==
  request_log' = IF db_ok THEN UpdateByRid(request_log, cb[c].rid, fields)
                          ELSE request_log

\* The handlers after a write of c: c is at pc with resp; a handler of the same
\* rid that is between its write before the dispatch and its throttle write has
\* been written under
WroteCb(c, db_ok, pc, resp) ==
  [x \in CbReqs |->
     IF x = c
       THEN [cb[c] EXCEPT !.pc = pc, !.resp = resp, !.db_write = TRUE,
                          !.db_lost = (cb[c].db_lost \/ ~db_ok)]
     ELSE IF db_ok /\ cb[x].rid = cb[c].rid /\ cb[x].pc = "throttle_write"
       THEN [cb[x] EXCEPT !.raced = TRUE]
     ELSE cb[x]]

CbSkipWrite(c, db_ok) ==
  /\ cb[c].pc = "skip_write"
  /\ CbWrite(c, db_ok, SkipWrite)
  /\ cb' = WroteCb(c, db_ok, "done", APIResponse(TRUE, 200, "ok", 200))
  /\ UNCHANGED <<trackSide, nextCb>>

CbPreWrite(c, db_ok) ==
  /\ cb[c].pc = "pre_write"
  /\ CbWrite(c, db_ok, PreWrite(cb[c].callback_template))
  /\ cb' = WroteCb(c, db_ok, IF cb[c].should_throttle THEN "throttle_write" ELSE "send",
                   NoResp)
  /\ UNCHANGED <<trackSide, nextCb>>

CbThrottleWrite(c, db_ok) ==
  /\ cb[c].pc = "throttle_write"
  /\ CbWrite(c, db_ok, ThrottleWrite)
  /\ cb' = WroteCb(c, db_ok, "done", APIResponse(TRUE, 200, "ok", 200))
  /\ UNCHANGED <<trackSide, nextCb>>

\* http_send_with_retry(GET final_downstream_url); without a template nothing
\* is sent and the handler answers 200
CbSend(c, status) ==
  /\ cb[c].pc = "send"
  /\ cb' = IF ~cb[c].callback_template
             THEN SetCb(c, "done", APIResponse(TRUE, 200, "ok", 200))
           ELSE [cb EXCEPT ![c].http_sent = TRUE,
                           ![c].downstream_status = status,
                           ![c].pc = IF status = 200 THEN "sent_write"
                                     ELSE IF status = Raised THEN "raised_write"
                                     ELSE "fail_write"]
  /\ UNCHANGED <<trackSide, request_log, nextCb>>

CbSentWrite(c, db_ok) ==
  /\ cb[c].pc = "sent_write"
  /\ CbWrite(c, db_ok, SentWrite)
  /\ cb' = WroteCb(c, db_ok, "done", APIResponse(TRUE, 200, "ok", 200))
  /\ UNCHANGED <<trackSide, nextCb>>

\* The downstream answered otherwise: the handler returns code 500 and leaves
\* response.status_code as it was
CbFailWrite(c, db_ok) ==
  /\ cb[c].pc = "fail_write"
  /\ CbWrite(c, db_ok, FailWrite)
  /\ cb' = WroteCb(c, db_ok, "done", APIResponse(FALSE, 500, "server_config_error", 200))
  /\ UNCHANGED <<trackSide, nextCb>>

\* The send raised: except Exception writes 3 and returns code 500 likewise
CbRaisedWrite(c, db_ok) ==
  /\ cb[c].pc = "raised_write"
  /\ CbWrite(c, db_ok, FailWrite)
  /\ cb' = WroteCb(c, db_ok, "done", APIResponse(FALSE, 500, "server_error", 200))
  /\ UNCHANGED <<trackSide, nextCb>>

\* The response is out; the slot takes the next request
CbReturn(c) ==
  /\ cb[c].pc = "done"
  /\ cb' = [cb EXCEPT ![c] = IdleCb]
  /\ UNCHANGED <<trackSide, request_log, nextCb>>

\* ------------------------------------------------------------------ clock
\* A tick is 10 s. Redis commands run under socket timeouts of 80 ms, so no tick
\* passes between two of them; one can pass while a processor awaits
\* dispatch_click_job (the HTTP budget of the adapter, then the database).
NoRedisStepPending ==
  \A p \in Procs, k \in Keys : task[p][k].pc \in {"idle", "dispatch"}

\* Time passes; a lock key whose PX ran out no longer exists.
Tick ==
  /\ now < MaxTime
  /\ NoRedisStepPending
  /\ now' = now + 1
  /\ lock' = [k \in {x \in DOMAIN lock : lock[x].exp > now + 1} |-> lock[k]]
  /\ UNCHANGED <<aside, latest, due, task, flush, nextJob, submits, burstFrom, dispatched, request_log, bg, cb, nextCb, tr>>

NextDebounce ==
  \/ \E k \in Keys, o \in OrderChoices : SubmitJob(k, o, TRUE)
  \/ \E p \in Workers : WorkerPop(p)
  \/ \E p \in Workers, k \in Keys : PmLock(p, k)
  \/ \E p \in Workers, k \in Keys : PmHGetAll(p, k)
  \/ \E p \in Workers, k \in Keys : PmZremEmpty(p, k)
  \/ \E p \in Workers, k \in Keys : PmZaddBack(p, k)
  \/ \E p \in Workers, k \in Keys, sent \in BOOLEAN, status \in UpstreamStatuses :
       PmDispatch(p, k, sent, status)
  \/ \E p \in Workers, k \in Keys : PmDelLatest(p, k)
  \/ \E p \in Workers, k \in Keys : PmZrem(p, k)
  \/ \E p \in Workers, k \in Keys : PmUnlock(p, k)
  \/ Tick

SpecDebounce == Init /\ [][NextDebounce]_vars

\* track_event in every mode and flush_all. Every dispatch is sent and answered
\* 200, the case in which a row is written. flush_all is the only processor
\* here, so a key it pops always has its hash and the no-data branch
\* (FlushZremEmpty, FlushUnlockSkip) has no part in it.
NextTrack ==
  \/ \E k \in Keys, out \in SubmitOutcomes : TrackDebounce(GoodReq, k, now, TRUE, out, TRUE, 200)
  \/ \E b \in bg, out \in EvalOutcomes : BgSubmit(b, out, TRUE, 200)
  \/ \E k \in Keys : TrackFallback(GoodReq, k, TRUE, TRUE, 200)
  \/ \E adapter \in BOOLEAN : TrackDirect(DirectReq, TRUE, adapter, 200, TRUE)
  \/ \E f \in BOOLEAN, m \in 1..MaxItems : FlushStart(f, m)
  \/ FlushZRange
  \/ FlushZAddNow
  \/ FlushPop
  \/ FlushLock
  \/ \E k \in Keys : FlushHGetAll(k)
  \/ \E k \in Keys : FlushDispatch(k, TRUE, 200)
  \/ \E k \in Keys : FlushDelLatest(k)
  \/ \E k \in Keys : FlushZrem(k)
  \/ \E k \in Keys : FlushUnlock(k)

SpecTrack == Init /\ [][NextTrack]_vars

\* The requests of the concurrent specification: the signature is good and
\* callback_events is a list that holds the event or not. A
\* decision the handler does not reach (the request ended before it) is given
\* one value only.
CbDecisions ==
  {q \in CbInputs :
     /\ q.lookup_ok
     /\ q.expected_sig = "s1"
     /\ q.verify_type = "hmac_sha256"
     /\ q.whitelist = [kind |-> "list", items |-> {<<"a">>}, none_value |-> FALSE]
     /\ q.event \in {[is_none |-> FALSE, name |-> <<"a">>],
                     [is_none |-> FALSE, name |-> <<"b">>]}
     /\ q.actual_sig = "s1"
     /\ ~q.enabled => q.event.name = <<"a">>
     /\ ~(q.enabled /\ q.event.name = <<"a">>) => ~q.should_throttle}

\* Direct track requests (answered 200 by the upstream: track_status plays no
\* part in the handler) and the callbacks of their upstreams
NextCallback ==
  \/ \E tmpl \in BOOLEAN, adapter \in BOOLEAN : TrackDirect(DirectReq, tmpl, adapter, 200, TRUE)
  \/ \E c \in CbReqs, rid \in RidChoices, q \in CbDecisions : CbReceive(c, rid, q)
  \/ \E c \in CbReqs, db_ok \in BOOLEAN : CbSkipWrite(c, db_ok)
  \/ \E c \in CbReqs, db_ok \in BOOLEAN : CbPreWrite(c, db_ok)
  \/ \E c \in CbReqs, db_ok \in BOOLEAN : CbThrottleWrite(c, db_ok)
  \/ \E c \in CbReqs, status \in DownstreamStatuses : CbSend(c, status)
  \/ \E c \in CbReqs, db_ok \in BOOLEAN : CbSentWrite(c, db_ok)
  \/ \E c \in CbReqs, db_ok \in BOOLEAN : CbFailWrite(c, db_ok)
  \/ \E c \in CbReqs : CbReturn(c)

SpecCallback == Init /\ [][NextCallback]_vars

\* Direct track requests and callbacks handled one at a time, each with
\* whatever a request can meet (CbRequests)
NextCallbackSeq ==
  \/ \E tmpl \in BOOLEAN, adapter \in BOOLEAN : TrackDirect(DirectReq, tmpl, adapter, 200, TRUE)
  \/ \E rid \in RidChoices, q \in CbRequests : CbReceive("c1", rid, q)
  \/ \E db_ok \in BOOLEAN : CbSkipWrite("c1", db_ok)
  \/ \E db_ok \in BOOLEAN : CbPreWrite("c1", db_ok)
  \/ \E db_ok \in BOOLEAN : CbThrottleWrite("c1", db_ok)
  \/ \E status \in DownstreamOutcomes : CbSend("c1", status)
  \/ \E db_ok \in BOOLEAN : CbSentWrite("c1", db_ok)
  \/ \E db_ok \in BOOLEAN : CbFailWrite("c1", db_ok)
  \/ \E db_ok \in BOOLEAN : CbRaisedWrite("c1", db_ok)
  \/ CbReturn("c1")

SpecCallbackSeq == Init /\ [][NextCallbackSeq]_vars

\* track_event alone, with every request: refused, or accepted and sent at
\* once, debounced, or sent by the fallback (the upstream answers 200)
NextTrackReq ==
  \/ \E req \in TrackRequests : TrackRefuse(req)
  \/ \E req \in TrackRequests : TrackDirect(req, TRUE, TRUE, 200, TRUE)
  \/ \E req \in TrackRequests, k \in Keys :
       TrackDebounce(req, k, now, TRUE, "ok", TRUE, 200)
  \/ \E req \in TrackRequests, k \in Keys : TrackFallback(req, k, TRUE, TRUE, 200)

SpecTrackReq == Init /\ [][NextTrackReq]_vars

\* Both handlers on every path that answers: track requests refused by
\* routing, direct and fallback with what the upstream answers, debounced;
\* callbacks one at a time with what the downstream answers
NextResponses ==
  \/ \E req \in RoutedRequests : TrackRefuse(req)
  \/ \E tmpl \in BOOLEAN, adapter \in BOOLEAN, status \in UpstreamStatuses :
       TrackDirect(DirectReq, tmpl, adapter, status, TRUE)
  \/ \E k \in Keys : TrackDebounce(GoodReq, k, now, TRUE, "ok", TRUE, 200)
  \/ \E k \in Keys, status \in UpstreamStatuses : TrackFallback(GoodReq, k, TRUE, TRUE, status)
  \/ \E rid \in RidChoices, q \in CbDecisions : CbReceive("c1", rid, q)
  \/ CbSkipWrite("c1", TRUE)
  \/ CbPreWrite("c1", TRUE)
  \/ CbThrottleWrite("c1", TRUE)
  \/ \E status \in DownstreamOutcomes : CbSend("c1", status)
  \/ CbSentWrite("c1", TRUE)
  \/ CbFailWrite("c1", TRUE)
  \/ CbRaisedWrite("c1", TRUE)
  \/ CbReturn("c1")

SpecResponses == Init /\ [][NextResponses]_vars

\* track_event in debounce mode with every outcome of the submit (returned,
\* raised, timed out and scheduled again), of the fallback and of the dispatch
\* (sent or not, answered 200 or not)
NextSubmit ==
  \/ \E k \in Keys, out \in WaitForOutcomes, sent \in BOOLEAN, status \in UpstreamStatuses :
       TrackDebounce(GoodReq, k, now, TRUE, out, sent, status)
  \/ \E b \in bg, out \in EvalOutcomes, sent \in BOOLEAN, status \in UpstreamStatuses :
       BgSubmit(b, out, sent, status)
  \/ \E k \in Keys, sent \in BOOLEAN, status \in UpstreamStatuses :
       TrackFallback(GoodReq, k, TRUE, sent, status)

\* What http_send_with_retry returns: the status of the answer, 408 after a
\* timeout, 503 after a connection failure, 500 after another exception
DirectOutcomes == {200, 204, 302, 404, 408, 500, 503}

\* Routable requests that the debounce switches send at once
DirectRequests ==
  {req \in DebounceRequests : ~DebounceEnabled(req.debounce, req.rule_debounce)}

\* track_event without debounce: with or without callback template and
\* outbound adapter, every outcome of the send, the insert committed or not
NextDirect ==
  \E req \in DirectRequests, tmpl \in BOOLEAN, adapter \in BOOLEAN,
     status \in DirectOutcomes, db_ok \in BOOLEAN :
       TrackDirect(req, tmpl, adapter, status, db_ok)

SpecDirect == Init /\ [][NextDirect]_vars

SpecSubmit == Init /\ [][NextSubmit]_vars

\* http_send_with_retry with every budget, retry count and backoff, against a
\* peer that answers, answers late or does not answer
NextRetry ==
  \/ \E timeout_ms \in 0..MaxBudget, max_retries \in 0..MaxRetries,
        backoff_ms \in 0..MaxBackoff : RetryCall(timeout_ms, max_retries, backoff_ms)
  \/ \E status \in HttpStatuses, elapsed \in 0..Max2(MinAttemptTimeout, MaxBudget),
        client_timeout \in BOOLEAN : RetryAttempt(status, elapsed, client_timeout)
  \/ RetrySleep
  \/ RetryReturn

\* One instance with its worker; submit_job calls until the shutdown begins,
\* then flush_all(force=True) beside the worker, then shutdown(). A cancelled
\* round only finishes its finally clauses. Every dispatch is sent and answered 200.
NextShutdown ==
  \/ \E k \in Keys : stop.pc = "idle" /\ SubmitJob(k, now, TRUE)
  \/ stop.pc # "done" /\ WorkerPop(OwnWorker)
  \/ \E k \in Keys : PmLock(OwnWorker, k)
  \/ \E k \in Keys : PmHGetAll(OwnWorker, k)
  \/ \E k \in Keys : PmZremEmpty(OwnWorker, k)
  \/ \E k \in Keys : PmZaddBack(OwnWorker, k)
  \/ \E k \in Keys : PmDispatch(OwnWorker, k, TRUE, 200)
  \/ \E k \in Keys : PmDelLatest(OwnWorker, k)
  \/ \E k \in Keys : PmZrem(OwnWorker, k)
  \/ \E k \in Keys : PmUnlock(OwnWorker, k)
  \/ \E m \in 1..MaxItems : ShutdownFlushAll(m)
  \/ FlushZRange
  \/ FlushZAddNow
  \/ FlushPop
  \/ FlushLock
  \/ \E k \in Keys : FlushHGetAll(k)
  \/ \E k \in Keys : FlushZremEmpty(k)
  \/ \E k \in Keys : FlushUnlockSkip(k)
  \/ \E k \in Keys : FlushDispatch(k, TRUE, 200)
  \/ \E k \in Keys : FlushDelLatest(k)
  \/ \E k \in Keys : FlushZrem(k)
  \/ \E k \in Keys : FlushUnlock(k)
  \/ Shutdown
  \/ stop.pc # "done" /\ Tick

SpecShutdown == Init /\ [][NextShutdown]_vars

\* The same sequence on an instance whose worker is not running
NextShutdownAlone ==
  \/ \E k \in Keys : stop.pc = "idle" /\ SubmitJob(k, now, TRUE)
  \/ \E m \in 1..MaxItems : ShutdownFlushAll(m)
  \/ FlushZRange
  \/ FlushZAddNow
  \/ FlushPop
  \/ FlushLock
  \/ \E k \in Keys : FlushHGetAll(k)
  \/ \E k \in Keys : FlushDispatch(k, TRUE, 200)
  \/ \E k \in Keys : FlushDelLatest(k)
  \/ \E k \in Keys : FlushZrem(k)
  \/ \E k \in Keys : FlushUnlock(k)
  \/ Shutdown
  \/ stop.pc # "done" /\ Tick

SpecShutdownAlone == Init /\ [][NextShutdownAlone]_vars

\* Pipelines of url_encode() and normalize_encode() on every value of the model
NextEncode == \E fn \in EncodeFunctions : ApplyNext(fn)

SpecEncode == InitEncode /\ [][NextEncode]_vars

\* _clean_query_placeholders on every value of the model
NextClean == CleanCall

SpecClean == InitClean /\ [][NextClean]_vars

\* One worker and flush_all, with Redis reads that can raise. Every dispatch
\* is sent and answered 200.
NextLock ==
  \/ \E k \in Keys : SubmitJob(k, now, TRUE)
  \/ WorkerPop(OwnWorker)
  \/ \E k \in Keys : PmLock(OwnWorker, k)
  \/ \E k \in Keys : PmHGetAll(OwnWorker, k)
  \/ \E k \in Keys : PmReadRaises(OwnWorker, k)
  \/ \E k \in Keys : PmZremEmpty(OwnWorker, k)
  \/ \E k \in Keys : PmZaddBack(OwnWorker, k)
  \/ \E k \in Keys : PmDispatch(OwnWorker, k, TRUE, 200)
  \/ \E k \in Keys : PmDelLatest(OwnWorker, k)
  \/ \E k \in Keys : PmZrem(OwnWorker, k)
  \/ \E k \in Keys : PmUnlock(OwnWorker, k)
  \/ \E f \in BOOLEAN, m \in 1..MaxItems : FlushStart(f, m)
  \/ FlushZRange
  \/ FlushZAddNow
  \/ FlushPop
  \/ FlushLock
  \/ \E k \in Keys : FlushHGetAll(k)
  \/ \E k \in Keys : FlushReadRaises(k)
  \/ \E k \in Keys : FlushZremEmpty(k)
  \/ \E k \in Keys : FlushUnlockSkip(k)
  \/ \E k \in Keys : FlushDispatch(k, TRUE, 200)
  \/ \E k \in Keys : FlushDelLatest(k)
  \/ \E k \in Keys : FlushZrem(k)
  \/ \E k \in Keys : FlushUnlock(k)
  \/ Tick

SpecLock == Init /\ [][NextLock]_vars

\* choose_route called on every udm and configuration of the model
NextRoute == ChooseRouteCall

SpecRoute == InitRoute /\ [][NextRoute]_vars

\* should_throttle_callback called again and again
NextThrottle ==
  \E rid \in ThrottleRids, throttle_rate \in ThrottleRates : ThrottleCall(rid, throttle_rate)

SpecThrottle == Init /\ [][NextThrottle]_vars

\* The event loop runs the coroutine and every await of it returns
SpecRetry == Init /\ [][NextRetry]_vars /\ WF_vars(NextRetry)

\* The event loop runs the task it was given
SpecSubmitFair ==
  /\ SpecSubmit
  /\ WF_vars(\E b \in bg, out \in EvalOutcomes, sent \in BOOLEAN,
                 status \in UpstreamStatuses : BgSubmit(b, out, sent, status))

\* ------------------------------------- DebounceManager (services/debounce.py)
\* The in-memory manager. No locked section of it holds an await and an
\* uncontended asyncio.Lock is taken without yielding, so each locked section,
\* and what runs up to the next await, is one step.
\* The inactivity_ms of a submit call, in ticks
inactivity_ms == 1

\* Most submit calls of a behaviour
MaxMemSubmits == 3

MemTasks == 1..MaxMemSubmits

\* start()
MemStart ==
  /\ ~mem.running
  /\ mem' = [mem EXCEPT !.running = TRUE]
  /\ UNCHANGED <<now, latest, due, lock, task, flush, nextJob, submits, burstFrom,
                 dispatched, request_log, bg, cb, nextCb, tr, stop, retry, calc>>

\* asyncio.create_task(self._wait_and_fire(key)): the task has not run yet
NewTask(k) == [key |-> k, pc |-> "created", wake_at |-> 0, send_factory |-> 0, burst |-> 0]

\* A task that has ended, by a return (pc "done") or by a CancelledError
EndedTask(k, pc) == [NewTask(k) EXCEPT !.pc = pc]

\* if st.task and not st.task.done(): st.task.cancel(). The CancelledError
\* ends the task at the await it stands at
CancelTask(tasks, t) ==
  IF tasks[t].pc \in {"done", "cancelled"} THEN tasks
  ELSE [tasks EXCEPT ![t] = EndedTask(tasks[t].key, "cancelled")]

\* mutant: a tie keeps the payload that came first
ReplacesPayloadStrict(order_ts_ms, old_order_ts_ms) == order_ts_ms > old_order_ts_ms

\* if order_ts_ms >= st.payload.order_ts_ms: st.payload = ...
ReplacesPayload(order_ts_ms, old_order_ts_ms) == order_ts_ms >= old_order_ts_ms

\* history: the submit call id of key, and the burst it fell into (0: sent at once)
MemNote(m, k, id, order_ts_ms, burst) ==
  [m EXCEPT !.subs = Append(@, [k |-> k, id |-> id, order |-> order_ts_ms,
                                burst |-> burst])]

\* history: send_factory of submit id was awaited
MemSent(m, k, id, burst) ==
  [m EXCEPT !.sends = Append(@, [k |-> k, id |-> id, burst |-> burst])]

\* submit(key, order_ts_ms, inactivity_ms, max_wait_ms, send_factory); the
\* send_factory of the call is known by the number of the call
MemSubmit(k, order_ts_ms) ==
  /\ Len(mem.subs) < MaxMemSubmits
  /\ now + max_wait_ms <= MaxTime
  /\ LET id == Len(mem.subs) + 1
         t == Len(mem.tasks) + 1
     IN mem' =
          IF ~mem.running
            THEN MemSent(MemNote(mem, k, id, order_ts_ms, 0), k, id, 0)
          ELSE IF k \notin DOMAIN mem.states
            THEN [MemNote(mem, k, id, order_ts_ms, mem.bursts + 1) EXCEPT
                    !.states = (k :> [first_submit_ms |-> now,
                                      due_at_ms |-> Min2(now + inactivity_ms, now + max_wait_ms),
                                      payload |-> [order_ts_ms |-> order_ts_ms,
                                                   send_factory |-> id],
                                      task |-> t,
                                      burst |-> mem.bursts + 1]) @@ @,
                    !.tasks = Append(@, NewTask(k)),
                    !.bursts = @ + 1]
          ELSE LET st == mem.states[k] IN
               [MemNote(mem, k, id, order_ts_ms, st.burst) EXCEPT
                    !.states[k] =
                      [st EXCEPT
                         !.payload = IF ReplacesPayload(order_ts_ms, st.payload.order_ts_ms)
                                       THEN [order_ts_ms |-> order_ts_ms, send_factory |-> id]
                                       ELSE @,
                         !.due_at_ms = Min2(now + inactivity_ms,
                                            st.first_submit_ms + max_wait_ms),
                         !.task = t],
                    !.tasks = Append(CancelTask(@, st.task), NewTask(k))]
  /\ UNCHANGED <<now, latest, due, lock, task, flush, nextJob, submits, burstFrom,
                 dispatched, request_log, bg, cb, nextCb, tr, stop, retry, calc>>

\* await asyncio.sleep(wait_ms / 1000.0)
MemSleep(m, t, wait_ms) ==
  [m EXCEPT !.tasks[t].pc = "sleep", !.tasks[t].wake_at = now + wait_ms]

\* The second locked section of _wait_and_fire: no state, return; not due
\* (the state was put off), continue, which leads to the sleep again; else
\* payload = st.payload and self._states.pop(key), then the send
MemConfirm(m, t) ==
  LET k == m.tasks[t].key IN
  IF k \notin DOMAIN m.states THEN [m EXCEPT !.tasks[t] = EndedTask(k, "done")]
  ELSE IF now < m.states[k].due_at_ms
    THEN MemSleep(m, t, Max2(0, m.states[k].due_at_ms - now))
  ELSE [m EXCEPT !.states = [x \in DOMAIN m.states \ {k} |-> m.states[x]],
                 !.tasks[t] = [NewTask(k) EXCEPT
                                 !.pc = "send",
                                 !.send_factory = m.states[k].payload.send_factory,
                                 !.burst = m.states[k].burst]]

\* The first locked section: no state, return; wait_ms = max(0, due_at_ms -
\* now); the sleep if wait_ms > 0, else straight on to the second section
MemLoopTop(m, t) ==
  LET k == m.tasks[t].key IN
  IF k \notin DOMAIN m.states THEN [m EXCEPT !.tasks[t] = EndedTask(k, "done")]
  ELSE IF Max2(0, m.states[k].due_at_ms - now) > 0
    THEN MemSleep(m, t, Max2(0, m.states[k].due_at_ms - now))
  ELSE MemConfirm(m, t)

\* The event loop runs a task that was created
MemTaskRun(t) ==
  /\ t \in DOMAIN mem.tasks
  /\ mem.tasks[t].pc = "created"
  /\ mem' = MemLoopTop(mem, t)
  /\ UNCHANGED <<now, latest, due, lock, task, flush, nextJob, submits, burstFrom,
                 dispatched, request_log, bg, cb, nextCb, tr, stop, retry, calc>>

\* The sleep is over, at its time or later
MemTaskWake(t) ==
  /\ t \in DOMAIN mem.tasks
  /\ mem.tasks[t].pc = "sleep"
  /\ now >= mem.tasks[t].wake_at
  /\ mem' = MemConfirm(mem, t)
  /\ UNCHANGED <<now, latest, due, lock, task, flush, nextJob, submits, burstFrom,
                 dispatched, request_log, bg, cb, nextCb, tr, stop, retry, calc>>

\* await payload.send_factory(), outside the lock; return
MemTaskSend(t) ==
  /\ t \in DOMAIN mem.tasks
  /\ mem.tasks[t].pc = "send"
  /\ mem' = [MemSent(mem, mem.tasks[t].key, mem.tasks[t].send_factory, mem.tasks[t].burst)
               EXCEPT !.tasks[t] = EndedTask(mem.tasks[t].key, "done")]
  /\ UNCHANGED <<now, latest, due, lock, task, flush, nextJob, submits, burstFrom,
                 dispatched, request_log, bg, cb, nextCb, tr, stop, retry, calc>>

\* The manager from its construction on, without shutdown()
NextMem ==
  \/ MemStart
  \/ \E k \in Keys, o \in OrderChoices : MemSubmit(k, o)
  \/ \E t \in MemTasks : MemTaskRun(t)
  \/ \E t \in MemTasks : MemTaskWake(t)
  \/ \E t \in MemTasks : MemTaskSend(t)
  \/ Tick

SpecMem == Init /\ [][NextMem]_vars

\* The event loop runs every task that is ready, and time passes
SpecMemFair ==
  /\ SpecMem
  /\ WF_vars(Tick)
  /\ \A t \in MemTasks :
       WF_vars(MemTaskRun(t)) /\ WF_vars(MemTaskWake(t)) /\ WF_vars(MemTaskSend(t))

\* ================================================================= claims
\* The submits of task_key since its latest hash was created
Burst(k) == SubSeq(submits[k], burstFrom[k] + 1, Len(submits[k]))

MaxOrder(b) == CHOOSE m \in {b[i].order : i \in 1..Len(b)} :
                 \A i \in 1..Len(b) : b[i].order <= m

\* The last submit of b that attains the maximal order_ts_ms
LastMax(b) == b[CHOOSE i \in 1..Len(b) :
                  /\ b[i].order = MaxOrder(b)
                  /\ \A j \in (i + 1)..Len(b) : b[j].order < MaxOrder(b)]

DispatchesOf(k) == SelectSeq(dispatched, LAMBDA d : d.k = k)

\* Every submit of task_key so far fell strictly within max_wait_ms of the first
InOneWindow(k) ==
  /\ submits[k] # <<>>
  /\ \A i \in 1..Len(submits[k]) : submits[k][i].at < submits[k][1].at + max_wait_ms

\* The window is over and nothing is left that could still dispatch task_key:
\* it is in no due set and no processor holds or handles it
Settled(k) ==
  /\ submits[k] # <<>>
  /\ now > submits[k][1].at + max_wait_ms
  /\ k \notin ZMembers(due)
  /\ \A p \in Procs : task[p][k].pc = "idle"
  /\ k \notin SeqToSet(flush.queue)

\* C1 (as claimed): a burst of submits of one key within max_wait_ms of the
\* first leads to exactly one dispatch_click_job for the key, that of the job
\* with the maximal order_ts_ms (the last such submit on ties).
C1_OneDispatchOfLatest ==
  \A k \in Keys :
    (InOneWindow(k) /\ Settled(k)) =>
      /\ Len(DispatchesOf(k)) = 1
      /\ DispatchesOf(k)[1].job = LastMax(submits[k]).job

\* C2: while the latest hash of a key lives, its order_ts_ms is the maximum
\* submitted since it was created and its job is that of the last submit
\* attaining the maximum (so a smaller order_ts_ms changes neither).
C2_StoredIsLastMax ==
  \A k \in DOMAIN latest :
    /\ Burst(k) # <<>>
    /\ latest[k].order_ts_ms = MaxOrder(Burst(k))
    /\ latest[k].job.trace_id = LastMax(Burst(k)).job

C2_Witness ==
  \E k \in DOMAIN latest :
    /\ Len(Burst(k)) >= 2
    /\ Burst(k)[Len(Burst(k))].order < latest[k].order_ts_ms
    /\ latest[k].job.trace_id # Burst(k)[Len(Burst(k))].job

\* C3: the window is fixed. After every submit_job of a key the due_at_ms of
\* its hash and its score in the due set are first_submit_ms + max_wait_ms,
\* first_submit_ms being the time of the first submit since the hash was
\* created; a later submit leaves first_submit_ms and the firing time alone.
C3_FixedWindow ==
  [][\A k \in Keys :
       (submits'[k] # submits[k]) =>
         /\ k \in DOMAIN latest'
         /\ latest'[k].first_submit_ms = Burst(k)'[1].at
         /\ latest'[k].due_at_ms = latest'[k].first_submit_ms + max_wait_ms
         /\ [k |-> k, s |-> latest'[k].first_submit_ms + max_wait_ms] \in due'
         /\ (k \in DOMAIN latest =>
               /\ latest'[k].first_submit_ms = latest[k].first_submit_ms
               /\ latest'[k].due_at_ms = latest[k].due_at_ms)]_vars

C3_Witness ==
  \E k \in DOMAIN latest :
    /\ Len(Burst(k)) >= 2
    /\ Burst(k)[Len(Burst(k))].at > latest[k].first_submit_ms
    /\ [k |-> k, s |-> Burst(k)[1].at + max_wait_ms] \in due

\* C4 (as claimed): a key is never left with a latest hash, no entry in the
\* due set and no processor that will dispatch or re-add it.
C4_NeverStranded ==
  \A k \in DOMAIN latest :
    \/ k \in ZMembers(due)
    \/ \E p \in Procs : task[p][k].pc # "idle"
    \/ k \in SeqToSet(flush.queue)

\* Between acquiring and releasing the lock of task_key
InCS(p, k) == task[p][k].pc \notin {"idle", "start"}

\* C5 (as claimed): at most one processor is between acquiring and releasing
\* the lock of a key, and a processor about to unlink the lock key unlinks
\* only a lock it acquired itself.
C5_LockExclusive ==
  \A k \in Keys :
    /\ Cardinality({p \in Procs : InCS(p, k)}) <= 1
    /\ \A p \in Procs :
         (task[p][k].pc = "unlock" /\ k \in DOMAIN lock) => lock[k].owner = p

\* C8: after any sequence of track requests (direct, debounced, re-submitted
\* after a timeout, fallback, flushed) the table holds at most one row per rid.
C8_OneRowPerRid ==
  \A i, j \in 1..Len(request_log) :
    request_log[i].rid = request_log[j].rid => i = j

\* one job was sent twice by dispatch_click_job and has its row
C8_Witness ==
  \E i \in 1..Len(request_log) :
    Cardinality({n \in 1..Len(dispatched) :
                   dispatched[n].job = request_log[i].rid /\ dispatched[n].sent}) >= 2

C6_NoRegressionToZero ==
  [][\A i \in 1..Len(request_log) :
       request_log[i].is_callback_sent \in 1..4 =>
         request_log'[i].is_callback_sent # 0]_vars

\* C7 (as claimed): callback_time of a row is set exactly when its
\* is_callback_sent is 1, 2 or 3.
C7_CallbackTimeIffSent ==
  \A i \in 1..Len(request_log) :
    request_log[i].callback_time <=> request_log[i].is_callback_sent \in {1, 2, 3}

\* The rids of the table, row by row
RidsOf(log) == [i \in 1..Len(log) |-> log[i].rid]

\* C10: no step of the /cb handler inserts or deletes a row: the rows keep
\* their number, order and rid.
C10_CallbackKeepsRows ==
  [][cb' # cb => RidsOf(request_log') = RidsOf(request_log)]_vars

\* a callback has written to its row and returned
C10_Witness ==
  \E c \in CbReqs, i \in 1..Len(request_log) :
    /\ cb[c].pc = "done"
    /\ cb[c].rid = request_log[i].rid
    /\ request_log[i].callback_params
    /\ request_log[i].is_callback_sent # 0

\* The handler c has answered a request that carried a rid
Answered(c) == cb[c].pc = "done" /\ cb[c].rid # 0

\* C11 (as claimed): a callback whose rid has no row, or whose lookup fails,
\* is processed without its row (routing on) and answered with a response
\* envelope, never with an unhandled error.
C11_MissingRowNonFatal ==
  \A c \in CbReqs :
    (Answered(c) /\ cb[c].enabled /\ ~cb[c].row) => cb[c].resp.envelope

ThrottledRow(log, rid, callback_template) ==
  \A i \in RowsOf(log, rid) :
    /\ log[i].is_callback_sent = 2
    /\ log[i].callback_time
    /\ log[i].downstream_url = FinalDownstreamUrl(callback_template)

\* The handler c answers success=true, code=200
AnswersOk(c) == cb'[c].resp.envelope /\ cb'[c].resp.success /\ cb'[c].resp.code = 200

\* C13 (as claimed): a callback that passes the whitelist and is throttled,
\* and whose writes commit, has sent nothing to the downstream, leaves its row
\* with is_callback_sent=2, callback_time set and downstream_url the expanded
\* template, and answers success=true, code=200.
C13_Throttled ==
  [][\A c \in CbReqs :
       (cb[c].pc = "throttle_write" /\ cb'[c].pc = "done" /\ ~cb'[c].db_lost) =>
         /\ ~cb'[c].http_sent
         /\ ThrottledRow(request_log', cb[c].rid, cb[c].callback_template)
         /\ AnswersOk(c)]_vars

\* C13, for a handler alone on its row: the same holds when no other callback
\* of the same rid wrote the row between the write before the dispatch and
\* the throttle write.
C13_ThrottledAlone ==
  [][\A c \in CbReqs :
       (/\ cb[c].pc = "throttle_write" /\ cb'[c].pc = "done"
        /\ ~cb'[c].db_lost /\ ~cb'[c].raced) =>
         /\ ~cb'[c].http_sent
         /\ ThrottledRow(request_log', cb[c].rid, cb[c].callback_template)
         /\ AnswersOk(c)]_vars

\* The row of rid is as the whitelist miss leaves it
SkippedRow(log, rid) ==
  \A i \in RowsOf(log, rid) :
    /\ log[i].is_callback_sent = 4
    /\ log[i].downstream_url = "null"
    /\ log[i].callback_params

SentRow(log, rid, downstream_status) ==
  \A i \in RowsOf(log, rid) :
    /\ log[i].callback_time
    /\ log[i].is_callback_sent = IF downstream_status = 200 THEN 1 ELSE 3

C16_BadSignatureRefused ==
  \A c \in CbReqs :
    cb[c].bad_sig =>
      /\ cb[c].pc = "done"
      /\ cb[c].resp.envelope /\ ~cb[c].resp.success
      /\ cb[c].resp.code = 500
      /\ cb[c].resp.message = "Invalid signature"
      /\ ~cb[c].http_sent
      /\ ~cb[c].db_write

\* a callback of a known rid with a wrong signature has been answered
C16_Witness ==
  \E c \in CbReqs :
    cb[c].pc = "done" /\ cb[c].bad_sig /\ FindByRid(request_log, cb[c].rid)

\* C17: with routes.enabled off, every callback that carries a rid is answered
\* success=true, code=200 at once: the handler neither reads nor writes the
\* table and sends nothing to the downstream.
C17_DisabledNoAction ==
  \A c \in CbReqs :
    (cb[c].pc # "idle" /\ cb[c].rid # 0 /\ ~cb[c].enabled) =>
      /\ cb[c].pc = "done"
      /\ cb[c].resp.envelope /\ cb[c].resp.success /\ cb[c].resp.code = 200
      /\ ~cb[c].db_read
      /\ ~cb[c].db_write
      /\ ~cb[c].http_sent

\* routing is off and a callback of a rid that has a row has been answered
C17_Witness ==
  \E c \in CbReqs :
    /\ cb[c].pc = "done" /\ cb[c].rid # 0 /\ ~cb[c].enabled
    /\ FindByRid(request_log, cb[c].rid)

\* The response is an envelope whose HTTP status is its code, one of codes
Aligned(resp, codes) ==
  resp.envelope /\ resp.status_code = resp.code /\ resp.code \in codes

\* C18 (as claimed): every response of /v1/track and of /cb is an envelope
\* {success, code, message} whose HTTP status equals its code, the code being
\* 200, 400 or 500 for /v1/track and 200 or 500 for /cb.
C18_EnvelopeAligned ==
  /\ tr.resp # NoResp => Aligned(tr.resp, {200, 400, 500})
  /\ \A c \in CbReqs : cb[c].pc = "done" => Aligned(cb[c].resp, {200, 500})

\* ds_id or event_type empty after cleaning, event_type neither click nor imp,
\* or a ts left after cleaning that int() does not take
BadInput(req) ==
  \/ CleanQueryPlaceholder(req.ds_id) = <<>>
  \/ CleanQueryPlaceholder(req.event_type) = <<>>
  \/ CleanQueryPlaceholder(req.event_type) \notin {Click, Imp}
  \/ /\ CleanQueryPlaceholder(req.ts) # <<>>
     /\ ~IntLiteral(CleanQueryPlaceholder(req.ts))

\* The step submits no debounce job, sends nothing upstream (every send of the
\* model is a dispatch_click_job call or writes its row) and writes no row
NoTrackEffect ==
  UNCHANGED <<latest, due, submits, bg, dispatched, request_log, nextJob>>

C20_ClosedRefused ==
  [][(/\ tr' # tr /\ ~BadInput(tr'.req)
      /\ (~tr'.req.enabled \/ ~tr'.req.up_id \/ ~tr'.req.upstream_config)) =>
       /\ tr'.resp.envelope /\ ~tr'.resp.success
       /\ tr'.resp.code = 400
       /\ tr'.resp.message = "closed"
       /\ NoTrackEffect]_vars

\* C20, for a disabled route or an empty up_id: the same holds.
C20_ClosedOrNoUpId ==
  [][(/\ tr' # tr /\ ~BadInput(tr'.req)
      /\ (~tr'.req.enabled \/ ~tr'.req.up_id)) =>
       /\ tr'.resp.envelope /\ ~tr'.resp.success
       /\ tr'.resp.code = 400
       /\ tr'.resp.message = "closed"
       /\ NoTrackEffect]_vars

\* C21 (as claimed): a track request whose up_id has no upstream configuration
\* sends nothing upstream and is answered code 200 (nothing to forward is not
\* an error).
C21_NoConfigAnswered200 ==
  [][(/\ tr' # tr /\ ~BadInput(tr'.req)
      /\ tr'.req.enabled /\ tr'.req.up_id /\ ~tr'.req.upstream_config) =>
       /\ tr'.resp.code = 200
       /\ NoTrackEffect]_vars

\* C21, for an upstream without outbound adapter on the direct path: nothing
\* is sent, no row is written and the answer is code 200.
C21_NoAdapterAnswered200 ==
  [][\A tmpl \in BOOLEAN, status \in UpstreamStatuses :
       TrackDirect(DirectReq, tmpl, FALSE, status, TRUE) =>
         /\ tr'.resp.success /\ tr'.resp.code = 200
         /\ UNCHANGED <<dispatched, request_log>>]_vars

\* C22: a routable track request is handed to the debounce manager exactly
\* when settings.debounce.enabled is true and the matched rule's debounce is
\* not the boolean false (absent, no rule and non-boolean values count as
\* true); otherwise it is dispatched directly within the request: nothing
\* reaches the manager and its row is written before the answer.
C22_DebounceGate ==
  [][(nextJob' # nextJob) =>
       LET req == tr'.req
           on == req.debounce = "true" /\ req.rule_debounce # "false"
           handed == submits' # submits \/ dispatched' # dispatched
       IN /\ handed <=> on
          /\ ~on => /\ UNCHANGED <<latest, due, submits, bg, dispatched>>
                    /\ RowsOf(request_log', nextJob') # {}]_vars

\* after a debounced request, one whose rule says debounce: false under the
\* global switch on has been sent at once
C22_Witness ==
  /\ \E k \in Keys : submits[k] # <<>>
  /\ tr.req.debounce = "true" /\ tr.req.rule_debounce = "false"
  /\ tr.resp.code = 200
  /\ RowsOf(request_log, nextJob) # {}

\* The Lua script of a submit of job ran on the server
Stored(j) == \E k \in Keys : \E i \in 1..Len(submits[k]) : submits[k][i].job = j

\* dispatch_click_job was called with job
Handed(j) == \E i \in 1..Len(dispatched) : dispatched[i].job = j

\* A submit_job task of job waits for the event loop
Resubmitting(j) == \E b \in bg : b.job.trace_id = j

\* C23: every job of a track request accepted in debounce mode has been stored
\* in the debounce store or handed to dispatch_click_job, or (after a submit
\* that exceeded submit_timeout_ms) its submit is scheduled again in the
\* background: no accepted job is dropped.
C23_AcceptedNotDropped ==
  \A j \in 1..nextJob : Stored(j) \/ Handed(j) \/ Resubmitting(j)

\* C23, the background submit ends: a job scheduled again is stored or handed
\* to dispatch_click_job once the task ran.
C23_ResubmitRuns ==
  \A j \in 1..MaxSubmits : Resubmitting(j) ~> (~Resubmitting(j) /\ (Stored(j) \/ Handed(j)))

\* one job went to dispatch_click_job after a Redis error, the submit of the
\* next timed out before the script ran and waits in the background, and the
\* request was answered ok
C23_Witness ==
  /\ nextJob = 2
  /\ ~Stored(1) /\ Handed(1)
  /\ ~Stored(2) /\ ~Handed(2) /\ Resubmitting(2)
  /\ tr.resp.success /\ tr.resp.code = 200

RetryDiscipline ==
  retry.pc # "idle" =>
    /\ Len(retry.sent) <= retry.max_retries + 1
    /\ \A i \in 1..(Len(retry.sent) - 1) : retry.sent[i] = 408
    /\ (retry.sent # <<>> /\ retry.sent[Len(retry.sent)] # 408) =>
         /\ retry.pc = "done"
         /\ retry.result = retry.sent[Len(retry.sent)]

\* C25: http_send_with_retry always terminates, after at most max_retries + 1
\* HTTP attempts; it makes a further attempt only after an attempt that
\* returned 408, and returns at once after a 2xx/3xx status and after any
\* other status that is not 408 (4xx, 5xx, connection failure).
C25_RetryTerminates ==
  /\ []RetryDiscipline
  /\ (retry.pc = "loop") ~> (retry.pc = "done")

\* a call with max_retries = 2 ended after its third attempt, the first two
\* having returned 408 and the last one 503
C25_Witness ==
  /\ retry.pc = "done"
  /\ retry.max_retries = 2
  /\ retry.sent = <<408, 408, 503>>
  /\ retry.result = 503

\* C26 (as claimed): timeout_ms is a total budget: the timeouts given to the
\* attempts plus the backoff sleeps never add up to more than timeout_ms, and
\* against a peer that always times out the call returns 408.
C26_TotalBudget ==
  retry.pc # "idle" =>
    /\ retry.granted + retry.slept <= retry.timeout_ms
    /\ (retry.pc = "done" /\ retry.timed_out) => retry.result = 408

\* C26, the part that holds: the call never runs longer than timeout_ms plus
\* the 100 ms an attempt is given at least, and against a peer that always
\* times out it returns 408.
C26_BudgetPlusFloor ==
  retry.pc # "idle" =>
    /\ retry.clock <= retry.timeout_ms + MinAttemptTimeout
    /\ (retry.pc = "done" /\ retry.timed_out) => retry.result = 408

C28_Routes == IF "routes" \in DOMAIN calc.config THEN calc.config.routes ELSE <<>>

C28_UdmValue(key) ==
  IF "ad" \in DOMAIN calc.udm /\ key \in DOMAIN calc.udm.ad THEN calc.udm.ad[key] ELSE ""

C28_Matches(i, j) ==
  LET route == C28_Routes[i]
  IN /\ route.match_key \in {"ad_id", "campaign_id"}
     /\ C28_UdmValue(route.match_key) # ""
     /\ route.rules[j].equals = C28_UdmValue(route.match_key)

C28_Positions ==
  {p \in (1..Len(C28_Routes)) \X (1..2) :
     p[2] <= Len(C28_Routes[p[1]].rules) /\ C28_Matches(p[1], p[2])}

C28_Before(p, q) == p[1] < q[1] \/ (p[1] = q[1] /\ p[2] <= q[2])

C28_Default(d, key, default) == IF key \in DOMAIN d THEN d[key] ELSE default

C28_ChooseRoute ==
  calc.op = "choose_route" =>
    IF C28_Routes = <<>>
      THEN calc.out = [upstream |-> None, downstream |-> None, enabled |-> FALSE,
                       throttle |-> 0]
    ELSE IF C28_Positions # {}
      THEN \E p \in C28_Positions :
             /\ \A q \in C28_Positions : C28_Before(p, q)
             /\ LET r == C28_Routes[p[1]].rules[p[2]]
                IN calc.out = [upstream |-> r.upstream,
                               downstream |-> C28_Default(r, "downstream", None),
                               enabled |-> C28_Default(r, "enabled", TRUE),
                               throttle |-> C28_Default(r, "throttle", 0)]
    ELSE LET f == C28_Routes[1]
         IN calc.out = [upstream |-> C28_Default(f, "fallback_upstream", None),
                        downstream |-> C28_Default(f, "fallback_downstream", None),
                        enabled |-> C28_Default(f, "fallback_enabled", TRUE),
                        throttle |-> C28_Default(f, "fallback_throttle", 0)]

\* two routes hold a rule for the ad_id of the udm and the rule of the first
\* one, which leaves enabled and throttle out, was returned
C28_Witness ==
  /\ calc.op = "choose_route"
  /\ Len(C28_Routes) = 2
  /\ Cardinality(C28_Positions) >= 3
  /\ C28_Routes[1].match_key = "ad_id"
  /\ C28_Routes[1].rules = <<RuleX1, RuleX2>>
  /\ calc.out = [upstream |-> "u1", downstream |-> "d1", enabled |-> TRUE, throttle |-> 0]

\* no rule matched in two routes with different fallbacks and the fallback of
\* the first one was returned
C28_WitnessFallback ==
  /\ calc.op = "choose_route"
  /\ Len(C28_Routes) = 2
  /\ C28_Positions = {}
  /\ "fallback_upstream" \in DOMAIN C28_Routes[1]
  /\ "fallback_upstream" \notin DOMAIN C28_Routes[2]
  /\ calc.out.upstream = "fu"

\* C29: the graceful-shutdown sequence (flush_all(force=True, max_items=M)
\* followed by shutdown()) loses no job: when at most M keys are pending at the
\* start, every job stored in the debounce store at that time has been
\* dispatched exactly once and its latest hash and due-set entry removed when
\* the sequence ends.
C29_DispatchesOf(s) ==
  {i \in 1..Len(dispatched) : dispatched[i].k = s.k /\ dispatched[i].job = s.job.trace_id}

C29_ShutdownLosesNoJob ==
  (ShutdownEnded /\ Cardinality(stop.stored) <= stop.max_items) =>
    \A s \in stop.stored :
      /\ Cardinality(C29_DispatchesOf(s)) = 1
      /\ s.k \notin DOMAIN latest
      /\ s.k \notin ZMembers(due)

\* C29 (auxiliary): with no worker beside it the sequence dispatches every
\* stored job once and removes its latest hash and due-set entry
C29_FlushAloneLosesNoJob ==
  stop.pc = "done" =>
    \A s \in stop.stored :
      /\ \E i \in C29_DispatchesOf(s) : C29_DispatchesOf(s) = {i}
      /\ s.k \notin DOMAIN latest \cup ZMembers(due)

\* C30 (as stated): for all strings s, url_encode(normalize_encode(s)) equals
\* normalize_encode(s).
C30_UrlEncodeKeepsNormalized ==
  (calc.op = "pipe" /\ calc.fns = <<"normalize_encode()", "url_encode()">>) =>
    calc.vals[3] = calc.vals[2]

\* C30 (amended): for all strings s, normalize_encode(normalize_encode(s))
\* equals normalize_encode(s), and url_encode(normalize_encode(s)) equals
\* normalize_encode(s) exactly when normalize_encode(s) holds no percent sign.
C30_HasPercent(s) == \E i \in 1..Len(s) : s[i] = "%"

C30_NormalizeIdempotent ==
  /\ (calc.op = "pipe" /\ calc.fns = <<"normalize_encode()", "normalize_encode()">>) =>
       calc.vals[3] = calc.vals[2]
  /\ (calc.op = "pipe" /\ calc.fns = <<"normalize_encode()", "url_encode()">>) =>
       (calc.vals[3] = calc.vals[2] <=> ~C30_HasPercent(calc.vals[2]))

\* a percent sign encoded twice over ("%2525") was normalized to "%25" and
\* the second normalize_encode() left "%25" as it was
C30_Witness ==
  /\ calc.op = "pipe"
  /\ calc.fns = <<"normalize_encode()", "normalize_encode()">>
  /\ calc.vals[1] = <<"%", "2", "5", "2", "5">>
  /\ calc.vals[2] = <<"%", "2", "5">>
  /\ calc.vals[3] = calc.vals[2]

\* C31: query cleaning replaces a /v1/track query parameter value by the empty
\* string exactly when the value matches ^__.+__$; every other value (including
\* "__", "___" and "____") is passed through unchanged.
C31_MatchesPattern(v) ==
  /\ Len(v) >= 5
  /\ v[1] = "_" /\ v[2] = "_"
  /\ v[Len(v) - 1] = "_" /\ v[Len(v)] = "_"

C31_CleanedIffPattern ==
  calc.op = "cleaned" =>
    calc.out = IF C31_MatchesPattern(calc.val) THEN <<>> ELSE calc.val

\* C31 (auxiliary): a value that matches ^__.+__$ is replaced by the empty
\* string, and a value that is passed on is passed on unchanged
C31_PatternIsCleaned ==
  calc.op = "cleaned" =>
    /\ C31_MatchesPattern(calc.val) => calc.out = <<>>
    /\ calc.out # <<>> => calc.out = calc.val

\* C32: if a submit_job for key K executes while a processor is handling K's
\* previous job (after the processor read the latest hash and before it deleted
\* it), the newly submitted payload is not lost: it is the payload sent in that
\* dispatch or it stays for a later processing of K. So the step that deletes
\* the latest hash of K only deletes a payload that was sent.
C32_Sent(k, job) ==
  \E i \in 1..Len(dispatched) : dispatched[i].k = k /\ dispatched[i].job = job.trace_id

C32_SubmitDuringDispatchKept ==
  [][\A k \in Keys :
       (k \in DOMAIN latest /\ k \notin DOMAIN latest') => C32_Sent(k, latest[k].job)]_vars

\* C32 (auxiliary): the payload a processor sends is the one it read from the
\* latest hash, a payload submitted before the read or the one stored at the read
C32_SendsWhatWasRead ==
  [][\A p \in Workers, k \in Keys :
       (task[p][k].pc = "hgetall" /\ task'[p][k].pc = "dispatch") =>
         task'[p][k].job = latest[k].job]_vars

\* C33: the job of a single /v1/track request (one trace_id) is sent to the
\* upstream at most once, even when the front-end submit times out after the
\* Redis script was already applied and is resubmitted in the background, or
\* when a timed-out submit was already in its direct-dispatch fallback.
C33_SendsOf(trace_id) ==
  {i \in 1..Len(dispatched) : dispatched[i].job = trace_id /\ dispatched[i].sent}

C33_SentAtMostOnce ==
  \A trace_id \in 1..nextJob : Cardinality(C33_SendsOf(trace_id)) <= 1

\* C33, the second case: the submit timed out inside the fallback dispatch
C33_FallbackSentAtMostOnce ==
  \A i, j \in 1..Len(dispatched) :
    (dispatched[i].job = dispatched[j].job /\ dispatched[i].sent /\ dispatched[j].sent)
      => i = j

\* C34: every execution of _process_member (and every flush_all item) that
\* acquires a task_key's lock releases it before finishing, including when the
\* Redis read of the latest hash or the parse of due_at_ms raises after the
\* acquisition: no execution ends leaving the lock it took in place.
C34_Finishes(p, k) ==
  /\ task[p][k].pc \notin {"idle", "start"}
  /\ task'[p][k].pc = "idle"

C34_LockAlwaysReleased ==
  [][\A p \in Procs, k \in Keys :
       C34_Finishes(p, k) => (LockFree(k)' \/ lock'[k].owner # p)]_vars

\* C34 (auxiliary): an execution that ends through its finally clauses leaves
\* the key without a lock
C34_FinallyReleases ==
  [][\A p \in Procs, k \in Keys :
       (C34_Finishes(p, k) /\ task[p][k].pc \in {"unlock", "unlock_skip"}) => LockFree(k)']_vars

\* ---------------------------------------------------------------------------
\* C35: the worker's _process_member never dispatches a key whose stored
\* due_at_ms is greater than the current time: it puts the key back into the
\* due sorted set with score due_at_ms, releases the lock and leaves the latest
\* hash unchanged, so that what it does dispatch has waited its
\* first_submit_ms + max_wait_ms.
C35_Read(p, k) ==
  task[p][k].pc = "hgetall" /\ task'[p][k].pc # "hgetall" /\ k \in DOMAIN latest

C35_NotDueNotSent ==
  [][\A p \in Workers, k \in Keys :
       /\ (C35_Read(p, k) /\ latest[k].due_at_ms > now) =>
            (task'[p][k].pc = "zadd_back" /\ task'[p][k].due_at_ms = latest[k].due_at_ms)
       /\ (C35_Read(p, k) /\ task'[p][k].pc = "dispatch") =>
            latest[k].first_submit_ms + max_wait_ms <= now
       /\ (task[p][k].pc = "zadd_back" /\ task'[p][k].pc # "zadd_back") =>
            /\ [k |-> k, s |-> task[p][k].due_at_ms] \in due'
            /\ latest' = latest /\ dispatched' = dispatched
            /\ task'[p][k].pc = "unlock"
       /\ (task[p][k].pc = "unlock" /\ task'[p][k].pc # "unlock") => LockFree(k)']_vars

\* a worker holds a popped key that is not due yet and has dispatched nothing
C35_Witness ==
  \E p \in Workers, k \in Keys :
    /\ task[p][k].pc = "zadd_back" /\ task[p][k].due_at_ms > now
    /\ k \in DOMAIN latest /\ dispatched = <<>>

\* ---------------------------------------------------------------------------
\* C36: once _process_member has called dispatch_click_job for a due job, then
\* whatever the call returned or raised, the latest hash of the key is deleted,
\* then the key is removed from the due sorted set, and only then the lock is
\* released; the task calls dispatch_click_job no second time.
C36_Step(p, k, pc) == task[p][k].pc = pc /\ task'[p][k] # task[p][k]

C36_CleanupAfterDispatch ==
  [][\A p \in Workers, k \in Keys :
       /\ C36_Step(p, k, "dispatch") =>
            /\ task'[p][k].pc = "del_latest"
            /\ Len(dispatched') = Len(dispatched) + 1
            /\ latest' = latest /\ due' = due /\ lock' = lock
       /\ C36_Step(p, k, "del_latest") =>
            /\ task'[p][k].pc = "zrem"
            /\ k \notin DOMAIN latest'
            /\ dispatched' = dispatched /\ lock' = lock
       /\ C36_Step(p, k, "zrem") =>
            /\ task'[p][k].pc = "unlock"
            /\ \A e \in due' : e.k # k
            /\ dispatched' = dispatched /\ lock' = lock /\ latest' = latest
       /\ C36_Step(p, k, "unlock") =>
            /\ task'[p][k].pc = "idle"
            /\ LockFree(k)'
            /\ dispatched' = dispatched]_vars

\* a dispatch that was answered with a failure status, or that sent nothing, is
\* behind the task: the hash is gone, the lock is still the task's
C36_Witness ==
  \E p \in Workers, k \in Keys :
    /\ task[p][k].pc = "zrem"
    /\ k \notin DOMAIN latest
    /\ k \in DOMAIN lock /\ lock[k].owner = p
    /\ Len(dispatched) > 0
    /\ dispatched[Len(dispatched)].k = k
    /\ \/ ~dispatched[Len(dispatched)].sent
       \/ \E i \in 1..Len(request_log) :
            /\ request_log[i].rid = dispatched[Len(dispatched)].job
            /\ request_log[i].track_status = 2

\* ---------------------------------------------------------------------------
\* C37 (as claimed): once the row of a rid has is_callback_sent = 1, a further
\* /cb request for that rid sends no HTTP request to the downstream.
C37_DeliveredNotSentAgain ==
  \A c \in CbReqs : cb[c].http_sent => cb[c].row_is_callback_sent # 1

\* ---------------------------------------------------------------------------
\* C38 (as claimed): flush_all(force=False) dispatches only tasks whose
\* due_at_ms is less than or equal to the current time; a task that is not due
\* yet is left pending.
C38_FlushDispatchesOnlyDue ==
  [][\A k \in Keys :
       (/\ ~flush.force
        /\ task[Flusher][k].pc = "hgetall"
        /\ task'[Flusher][k].pc = "dispatch") => latest[k].due_at_ms <= now]_vars

\* What does hold: with force=True every score that flush_all reads was set to
\* its now_ms first, so what it pops then is no later than the clock
C38_ForcedScoresAreNow ==
  [][(flush.pc = "zadd_now" /\ flush'.pc # "zadd_now") =>
       \A e \in due' : e.k \in flush.members => e.s <= now]_vars

\* ---------------------------------------------------------------------------
\* C39: dispatch_click_job sends no upstream request, writes no row and returns
\* 200 route_disabled_drop whenever the current configuration routes the ad of
\* the job to a disabled route or to an upstream other than the one recorded in
\* the job; otherwise the recheck does not stand in the way of the send.
C39_Current == ChooseRoute(calc.udm, calc.config)

C39_DisabledOrMoved ==
  \/ C39_Current.enabled = FALSE
  \/ C39_Current.upstream \in {"u1", "u2", "u3", "fu"} \ {calc.upstream_id}

C39_RecheckDropsExactly ==
  calc.op = "dispatch_click_job" =>
    /\ (~calc.raises /\ C39_DisabledOrMoved) =>
         /\ calc.out = [status |-> 200, msg |-> "route_disabled_drop"]
         /\ ~calc.sent
         /\ request_log = <<>>
    /\ (calc.raises \/ ~C39_DisabledOrMoved) =>
         /\ calc.out.msg # "route_disabled_drop"
         /\ (calc.upstream_config /\ calc.adapter) =>
              (calc.sent /\ Len(request_log) = 1 /\ request_log[1].rid = 1)

\* the route is enabled and leads to another upstream than the job's: dropped
C39_Witness ==
  /\ calc.op = "dispatch_click_job"
  /\ C39_Current.enabled = TRUE
  /\ C39_Current.upstream = "u1" /\ calc.upstream_id = "u2"
  /\ calc.upstream_config /\ calc.adapter
  /\ calc.out.msg = "route_disabled_drop"

\* the fallback of a route without fallback keys names no upstream and is
\* enabled: the job is sent
C39_WitnessNoUpstream ==
  /\ calc.op = "dispatch_click_job"
  /\ C39_Current.upstream = None /\ C39_Current.enabled = TRUE
  /\ calc.sent /\ Len(request_log) = 1

\* ---------------------------------------------------------------------------
\* C40: while the in-memory DebounceManager is running, every burst of submit
\* calls of a key leads to exactly one send, that of the submit with the
\* highest order_ts_ms (the last one on ties), due no later than
\* first_submit_ms + max_wait_ms; cancelling and recreating the timer task
\* never gives two sends or none.
C40_SubsOf(b) == {i \in 1..Len(mem.subs) : mem.subs[i].burst = b}

C40_SendsOf(b) == {i \in 1..Len(mem.sends) : mem.sends[i].burst = b}

\* the submit of burst b with the highest order_ts_ms, the last one on ties
C40_Winner(b) ==
  CHOOSE i \in C40_SubsOf(b) :
    \A j \in C40_SubsOf(b) :
      \/ mem.subs[j].order < mem.subs[i].order
      \/ (mem.subs[j].order = mem.subs[i].order /\ j <= i)

\* the timer tasks that can still send for burst b
C40_LiveTasks(b) ==
  {t \in 1..Len(mem.tasks) :
     \/ mem.tasks[t].pc = "send" /\ mem.tasks[t].burst = b
     \/ /\ mem.tasks[t].pc \in {"created", "sleep"}
        /\ mem.tasks[t].key \in DOMAIN mem.states
        /\ mem.states[mem.tasks[t].key].burst = b}

C40_Safe ==
  /\ \A b \in 1..mem.bursts :
       /\ Cardinality(C40_SendsOf(b)) + Cardinality(C40_LiveTasks(b)) = 1
       /\ \A i \in C40_SendsOf(b) : mem.sends[i].id = mem.subs[C40_Winner(b)].id
  /\ \A k \in DOMAIN mem.states :
       /\ mem.states[k].due_at_ms <= mem.states[k].first_submit_ms + max_wait_ms
       /\ mem.states[k].payload.send_factory = mem.subs[C40_Winner(mem.states[k].burst)].id

C40_OneSendPerBurst ==
  /\ []C40_Safe
  /\ \A b \in 1..MaxMemSubmits : (mem.bursts >= b) ~> (C40_SendsOf(b) # {})

\* a burst of two submits, the second of which cancelled the timer of the
\* first and did not replace its payload, has been sent
C40_Witness ==
  \E b \in 1..mem.bursts :
    /\ Cardinality(C40_SubsOf(b)) >= 2
    /\ C40_SendsOf(b) # {}
    /\ \E t \in 1..Len(mem.tasks) : mem.tasks[t].pc = "cancelled"
    /\ \E i \in C40_SubsOf(b) : i # C40_Winner(b) /\ i > C40_Winner(b)

====
